---- MODULE Spec2Model ----
(***************************************************************************)
(* Model of ReportWriter.py (audvelt/Report-Writer): the inspection        *)
(* record held by ReportGeneratorApp (equipment tabs and their sections),  *)
(* the status check boxes, save/load of the project bundle with its image  *)
(* store, and the periodic autosave.                                       *)
(*                                                                         *)
(* Sections that the source treats alike are represented by one title:     *)
(*   "Motor Housing"       for Motor Housing / Motor Shaft / Electrical    *)
(*                         Connection (per-observation images, inline      *)
(*                         custom issues with images)                      *)
(*   "Drive End Bearing"   for the two bearing sections (named custom      *)
(*                         patterns)                                       *)
(*   "Oil Evaluation"      for Oil Evaluation / Scroll Plate Inspection    *)
(*   "Visual Inspection"   the coil component section                      *)
(*   "External Inspection" for the three valve component sections          *)
(*   "Electrical Testing"  CompressorElectricalTestingSection              *)
(*   "Electrical Inspection" for the valve electrical / mechanical ones    *)
(* Each catalog is cut down to its terminal pattern and one non-terminal   *)
(* pattern with two observations.                                          *)
(***************************************************************************)
EXTENDS Integers, Sequences, FiniteSets, TLC

\* ------------------------------------------------------------------ bounds
MaxTabs == 4
MaxSuffix == 3
MaxCustom == 2
MaxImages == 2
MaxTicks == 2
MaxUnits == 1

\* --------------------------------------------------------------- catalogs
Kinds == {"motor", "compressor", "coil", "valve"}

StatusOK == "Status: OK"

StatusNotOK == "Status: NOT OK"

NoIssues == "No issues detected"

Pitting == "Pitting/Spalling"

\* get_all_sections of each tab class, in order, with the section type
AllSections(kind) ==
    CASE kind = "motor"      -> << <<"Motor Housing", "component">>,
                                   <<"Drive End Bearing", "component">> >>
      [] kind = "compressor" -> << <<"Electrical Testing", "compressor_electrical">>,
                                   <<"Oil Evaluation", "component">> >>
      [] kind = "coil"       -> << <<"Visual Inspection", "component">> >>
      [] kind = "valve"      -> << <<"External Inspection", "component">>,
                                   <<"Electrical Inspection", "valve_electrical">> >>

Titles(kind) == { AllSections(kind)[i][1] : i \in 1..Len(AllSections(kind)) }

SectionType(kind, title) ==
    LET i == CHOOSE j \in 1..Len(AllSections(kind)) : AllSections(kind)[j][1] = title
    IN  AllSections(kind)[i][2]

\* titles whose two status check boxes are wired to toggle_status_checkbox
StatusTitles ==
    {"Motor Housing", "Oil Evaluation", "Visual Inspection", "External Inspection"}

\* is_special_section / is_motor_section: per-observation image widgets
PerObsImageTitles == {"Motor Housing", "External Inspection"}

\* is_special in add_custom_pattern / get_custom_patterns: inline custom issues
InlineCustomTitles == {"Motor Housing", "Oil Evaluation", "Visual Inspection"}

\* the pattern whose observations list has one entry and no sub_observations
TerminalPattern(title) == IF title = "Drive End Bearing" THEN NoIssues ELSE StatusOK

IssuePattern(title) == IF title = "Drive End Bearing" THEN Pitting ELSE StatusNotOK

\* wear_patterns.items() order of the section's catalog
PatternOrder(title) == << TerminalPattern(title), IssuePattern(title) >>

Observations == << "o1", "o2" >>

ObsSet == { Observations[i] : i \in 1..Len(Observations) }

\* the issue check boxes of the electrical sections, in layout order
Issues == << "Grounded windings detected.", "Open windings detected." >>

IssueSet == { Issues[i] : i \in 1..Len(Issues) }

\* text typed into a line edit, and what str.strip() makes of it
Texts == {"", "t1", " t1 "}

Strip(text) ==
    CASE text = " t1 " -> "t1"
      [] text = " R1 " -> "R1"
      [] OTHER -> text

\* ------------------------------------------------------------ file names
\* A file name is its base word followed by the numeric suffixes appended
\* to it: <<"a">> is a.jpg, <<"a", 1>> is a_1.jpg, <<"a", 1, 1>> is a_1_1.jpg.
\* A path is a directory and a file name.
SrcDirs == {"d1", "d2"}

RmaValues == {"R1", "R2"}

\* file contents
Contents == {"X", "Y"}

Path(dir, name) == [dir |-> dir, name |-> name]

\* the image files the user can pick: two files of one name and different
\* content, files of different names and equal content, and a file whose
\* name looks like a numbered copy
InitFiles ==
    (Path("d1", << "a" >>) :> "X") @@ (Path("d2", << "a" >>) :> "Y") @@
    (Path("d1", << "b" >>) :> "X") @@ (Path("d2", << "a", 1 >>) :> "Y")

SrcPaths == DOMAIN InitFiles

\* save_progress: project_folder/images of a save path
ImagesFolder(save_path) ==
    CASE save_path = "R1" -> "R1_project/images"
      [] save_path = "R2" -> "R2_project/images"

\* ------------------------------------------------------------------ state
VARIABLES
    tabs,            \* equipment_tabs_widget: the open units in tab order
    count,           \* motor_count, compressor_count, coil_count, valve_count
    rma,             \* equipment_id (the header identifier)
    files,           \* image files on disk: path -> content
    stateFile,       \* report_state.json of each project folder
    userFile,        \* the user-facing .rpt file of each save path
    last_save_path,  \* self.last_save_path
    timerActive,     \* autosave_timer.isActive()
    is_autosaving,   \* self.is_autosaving
    autosave,        \* perform_autosave calls past the guard, not yet returned
    lastOp,          \* the last handler that ran and its outcome
    snapshot         \* history: the units as they were when each path was last written

recVars == << tabs, count, rma >>

diskVars == << files, stateFile, userFile, snapshot >>

autoVars == << last_save_path, timerActive, is_autosaving, autosave >>

vars == << tabs, count, rma, files, stateFile, userFile,
           last_save_path, timerActive, is_autosaving, autosave, lastOp,
           snapshot >>

\* ------------------------------------------------------- section widgets
\* ComponentSection.__init__ / init_ui: nothing checked, no custom entries
NewComponentSection(title) ==
    [ checked   |-> {},
      obs       |-> {},
      obsImages |-> [o \in ObsSet |-> << >>],
      patImages |-> [p \in {TerminalPattern(title), IssuePattern(title)} |-> << >>],
      custom    |-> << >>,
      notes     |-> "",
      images    |-> << >> ]

\* CompressorElectricalTestingSection / ValveElectricalInspectionSection
NewElectricalSection ==
    [ ok             |-> FALSE,
      not_ok         |-> FALSE,
      issues         |-> {},
      issueImages    |-> [x \in IssueSet |-> << >>],
      resistance     |-> "",
      custom         |-> << >>,
      ok_images      |-> << >>,
      not_ok_images  |-> << >>,
      general_images |-> << >>,
      notes          |-> "" ]

\* MotorTab / CompressorTab / CoilTab / ValveTab constructors
NewTab(kind, number) ==
    [ kind   |-> kind,
      number |-> number,
      secs   |-> [t \in Titles(kind) |->
                    IF SectionType(kind, t) = "component"
                    THEN NewComponentSection(t) ELSE NewElectricalSection] ]

\* ---------------------------------------------------------- tab helpers
RemoveAt(s, i) == [j \in 1..(Len(s) - 1) |-> IF j < i THEN s[j] ELSE s[j + 1]]

\* number of tabs of the kind among the first n tabs
CountKind(ts, kind, n) == Cardinality({j \in 1..n : ts[j].kind = kind})

\* len(self.motor_tabs) etc.
ListLen(ts, kind) == CountKind(ts, kind, Len(ts))

\* a removal that leaves the numbers of the remaining tabs as they are
RenumberNone(ts) == ts

\* remove_equipment_tab, the loop that renames the remaining tabs in tab order
Renumber(ts) ==
    [j \in 1..Len(ts) |-> [ts[j] EXCEPT !.number = CountKind(ts, ts[j].kind, j)]]

\* add_motor_tab / add_compressor_tab / add_coil_tab / add_valve_tab
AddTabTo(ts, cnt, kind) ==
    [ tabs  |-> Append(ts, NewTab(kind, cnt[kind] + 1)),
      count |-> [cnt EXCEPT ![kind] = cnt[kind] + 1] ]

AddTab(kind) ==
    /\ Len(tabs) < MaxTabs
    /\ tabs' = AddTabTo(tabs, count, kind).tabs
    /\ count' = AddTabTo(tabs, count, kind).count
    /\ lastOp' = [op |-> "add", kind |-> kind]
    /\ UNCHANGED << rma, diskVars, autoVars >>

add_motor_tab == AddTab("motor")

add_compressor_tab == AddTab("compressor")

add_coil_tab == AddTab("coil")

add_valve_tab == AddTab("valve")

\* remove_equipment_tab with the confirmation answered Yes
remove_equipment_tab ==
    \E i \in 1..Len(tabs) :
        LET rest == RemoveAt(tabs, i) IN
        /\ tabs' = Renumber(rest)
        /\ count' = [count EXCEPT ![tabs[i].kind] = ListLen(rest, tabs[i].kind)]
        /\ lastOp' = [op |-> "remove", kind |-> tabs[i].kind]
        /\ UNCHANGED << rma, diskVars, autoVars >>

\* ------------------------------------------------- status check boxes
OtherStatus(pattern_name) ==
    IF pattern_name = StatusOK THEN StatusNotOK ELSE StatusOK

\* a handler that leaves the other status box alone
toggle_status_checkbox_keep(sec, pattern_name, state) == sec

\* a handler that also unchecks the observations under the status it unchecks
toggle_status_checkbox_clears(sec, pattern_name, state) ==
    IF state = 2
    THEN [sec EXCEPT !.checked = @ \ {OtherStatus(pattern_name)}, !.obs = {}]
    ELSE sec

\* ComponentSection.toggle_status_checkbox, run by stateChanged of a status
\* check box: checking one status unchecks the other (whose own
\* stateChanged handler then only hides its container)
toggle_status_checkbox(sec, pattern_name, state) ==
    IF state = 2
    THEN [sec EXCEPT !.checked = @ \ {OtherStatus(pattern_name)}]
    ELSE sec

\* QCheckBox.setChecked on a pattern check box of a component section:
\* stateChanged is emitted only when the state changes
SetPatternChecked(title, sec, pattern_name, value) ==
    IF (pattern_name \in sec.checked) = value
    THEN sec
    ELSE LET s1 == [sec EXCEPT !.checked =
                        IF value THEN @ \cup {pattern_name} ELSE @ \ {pattern_name}]
         IN  IF title \in StatusTitles
             THEN toggle_status_checkbox(s1, pattern_name, IF value THEN 2 ELSE 0)
             ELSE s1   \* toggle_pattern_section: visibility only

\* the same for the electrical sections
toggle_status_keep(sec, state, is_ok) == sec

\* CompressorElectricalTestingSection.toggle_status (the valve electrical
\* and mechanical sections have the same handler)
toggle_status(sec, state, is_ok) ==
    IF state = 2
    THEN IF is_ok THEN [sec EXCEPT !.not_ok = FALSE]
                  ELSE [sec EXCEPT !.ok = FALSE]
    ELSE sec

\* setChecked on status_ok_cb (is_ok) or status_not_ok_cb
SetStatusChecked(sec, is_ok, value) ==
    IF (IF is_ok THEN sec.ok ELSE sec.not_ok) = value
    THEN sec
    ELSE LET s1 == IF is_ok THEN [sec EXCEPT !.ok = value]
                            ELSE [sec EXCEPT !.not_ok = value]
         IN  toggle_status(s1, IF value THEN 2 ELSE 0, is_ok)

\* ------------------------------------------------------- custom entries
\* ComponentSection.add_custom_pattern: the new entry's id is the current
\* length of the list; a named pattern starts with one observation input
AddCustomTo(title, sec) ==
    [sec EXCEPT !.custom =
        Append(@, [id |-> Len(@), text |-> "",
                   obs |-> IF title \in InlineCustomTitles THEN << >> ELSE << "" >>,
                   images |-> << >>])]

SelectSeq2(s, Test(_)) == SelectSeq(s, Test)

\* ComponentSection.delete_custom_pattern: drops every entry with the id
DeleteCustomFrom(sec, pattern_id) ==
    [sec EXCEPT !.custom = SelectSeq2(@, LAMBDA cp : cp.id # pattern_id)]

\* ------------------------------------------------------- image widgets
\* ImageUploadWidget.add_image / upload_images / dropEvent: a path is
\* appended unless it is already listed or the file does not exist
InSeq(x, s) == \E j \in 1..Len(s) : s[j] = x

AddImageTo(paths, img_path, fs) ==
    IF ~InSeq(img_path, paths) /\ img_path \in DOMAIN fs
    THEN Append(paths, img_path)
    ELSE paths

\* ---------------------------------------------------------- _copy_images
\* f"{base}_{counter}{ext}"
Numbered(filename, counter) == Append(filename, counter)

\* a comparison that never finds two files equal
SameBytesNever(fs, p1, p2) == FALSE

\* filecmp.cmp(img_path, check_path, shallow=False)
SameBytes(fs, p1, p2) == fs[p1] = fs[p2]

\* a search that takes the first name whether or not it is free
FindNameOverwrite(fs, img_path, dest_folder, new_filename, counter) ==
    [name |-> new_filename, copy |-> TRUE, overflow |-> FALSE]

\* _copy_images, the while loop that looks for a matching or free name:
\* gives the name and whether the file has to be copied; counter beyond
\* MaxSuffix is outside the modelled name space ("overflow")
RECURSIVE FindName(_, _, _, _, _)
FindName(fs, img_path, dest_folder, new_filename, counter) ==
    LET check_path == Path(dest_folder, new_filename) IN
    IF check_path \in DOMAIN fs
    THEN IF SameBytes(fs, img_path, check_path)
         THEN [name |-> new_filename, copy |-> FALSE, overflow |-> FALSE]
         ELSE IF counter > MaxSuffix
              THEN [name |-> new_filename, copy |-> FALSE, overflow |-> TRUE]
              ELSE FindName(fs, img_path, dest_folder,
                            Numbered(img_path.name, counter), counter + 1)
    ELSE [name |-> new_filename, copy |-> TRUE, overflow |-> FALSE]

\* _copy_images, the body of the loop for one image path: the file system
\* afterwards, the returned names (none when the source is missing), the
\* number of files copied
CopyOne(fs, img_path, dest_folder) ==
    IF img_path \notin DOMAIN fs
    THEN [fs |-> fs, names |-> << >>, copies |-> 0, overflow |-> FALSE]
    ELSE LET dest_path == Path(dest_folder, img_path.name) IN
         IF dest_path \in DOMAIN fs /\ SameBytes(fs, img_path, dest_path)
         THEN [fs |-> fs, names |-> << img_path.name >>, copies |-> 0,
               overflow |-> FALSE]
         ELSE LET f == FindName(fs, img_path, dest_folder, img_path.name, 1) IN
              IF f.copy
              THEN [fs |-> [q \in DOMAIN fs \cup {Path(dest_folder, f.name)} |->
                               IF q = Path(dest_folder, f.name)
                               THEN fs[img_path] ELSE fs[q]],
                    names |-> << f.name >>, copies |-> 1, overflow |-> FALSE]
              ELSE [fs |-> fs, names |-> << f.name >>, copies |-> 0,
                    overflow |-> f.overflow]

\* _copy_images(image_paths, dest_folder)
RECURSIVE CopyImages(_, _, _)
CopyImages(fs, image_paths, dest_folder) ==
    IF image_paths = << >>
    THEN [fs |-> fs, names |-> << >>, copies |-> 0, overflow |-> FALSE]
    ELSE LET one  == CopyOne(fs, Head(image_paths), dest_folder)
             rest == CopyImages(one.fs, Tail(image_paths), dest_folder)
         IN  [fs |-> rest.fs, names |-> one.names \o rest.names,
              copies |-> one.copies + rest.copies,
              overflow |-> one.overflow \/ rest.overflow]

\* ------------------------------------------------- reading the widgets
RECURSIVE Flatten(_)
Flatten(ss) == IF ss = << >> THEN << >> ELSE Head(ss) \o Flatten(Tail(ss))

\* ComponentSection.get_selected_patterns
get_selected_patterns(title, sec) ==
    SelectSeq2(PatternOrder(title), LAMBDA p : p \in sec.checked)

\* the one canonical sentence of a terminal pattern
TerminalSentence == "No significant issues observed."

\* ComponentSection.get_selected_observations
get_selected_observations(title, sec, pattern_name) ==
    IF pattern_name = TerminalPattern(title)
    THEN << TerminalSentence >>
    ELSE SelectSeq2(Observations, LAMBDA o : o \in sec.obs)

\* a getter that finds no observation image
get_observation_images_none(title, sec, pattern_name, obs) == << >>

\* ComponentSection.get_observation_images: only a pattern whose image
\* widgets are kept per observation has any
get_observation_images(title, sec, pattern_name, obs) ==
    IF title \in PerObsImageTitles /\ pattern_name = IssuePattern(title)
       /\ obs \in ObsSet
    THEN sec.obsImages[obs]
    ELSE << >>

\* ComponentSection.get_pattern_images
get_pattern_images(sec, pattern_name) == sec.patImages[pattern_name]

\* ComponentSection.get_custom_patterns: inline issues with non-empty text;
\* named patterns with a name and at least one non-empty observation
get_custom_patterns(title, sec) ==
    IF title \in InlineCustomTitles
    THEN LET kept == SelectSeq2(sec.custom, LAMBDA cp : Strip(cp.text) # "")
         IN  [j \in 1..Len(kept) |->
                [form |-> "inline", text |-> Strip(kept[j].text),
                 images |-> kept[j].images]]
    ELSE LET Obs(cp) == SelectSeq2([k \in 1..Len(cp.obs) |-> Strip(cp.obs[k])],
                                   LAMBDA x : x # "")
             kept == SelectSeq2(sec.custom,
                        LAMBDA cp : Strip(cp.text) # "" /\ Obs(cp) # << >>)
         IN  [j \in 1..Len(kept) |->
                [form |-> "named", name |-> Strip(kept[j].text),
                 observations |-> Obs(kept[j]), images |-> kept[j].images]]

\* CompressorElectricalTestingSection.get_test_data, the issues list
CheckedIssues(sec) == SelectSeq2(Issues, LAMBDA x : x \in sec.issues)

\* get_test_data of the electrical sections, the custom list
ElectricalCustoms(sec) ==
    LET kept == SelectSeq2(sec.custom, LAMBDA cp : Strip(cp.text) # "")
    IN  [j \in 1..Len(kept) |->
            [form |-> "inline", text |-> Strip(kept[j].text), images |-> << >>]]

\* ----------------------------------------------- the _copy_images calls
\* Every call of _copy_images that a save makes for section `title` of the
\* tab at index i, in the order of the calls: the key names the widget.
Key(i, title, slot, a, b) == << i, title, slot, a, b >>

Job(key, paths) == [key |-> key, paths |-> paths]

MotorSpecialTitles == {"Motor Housing"}

PatternJobs(i, title, sec, withObs) ==
    LET pats == get_selected_patterns(title, sec) IN
    Flatten([k \in 1..Len(pats) |->
        LET p  == pats[k]
            ol == get_selected_observations(title, sec, p)
            withImg == SelectSeq2(ol, LAMBDA o :
                          get_observation_images(title, sec, p, o) # << >>)
        IN  (IF withObs
             THEN [n \in 1..Len(withImg) |->
                     Job(Key(i, title, "obs", p, withImg[n]),
                         get_observation_images(title, sec, p, withImg[n]))]
             ELSE << >>)
            \o (IF get_pattern_images(sec, p) # << >>
                THEN << Job(Key(i, title, "pattern", p, ""),
                            get_pattern_images(sec, p)) >>
                ELSE << >>)])

ElectricalJobs(i, title, sec, withIssues) ==
    << Job(Key(i, title, "ok", "", ""), sec.ok_images),
       Job(Key(i, title, "not_ok", "", ""), sec.not_ok_images),
       Job(Key(i, title, "general", "", ""), sec.general_images) >>
    \o (IF withIssues
        THEN LET iss == CheckedIssues(sec) IN
             [n \in 1..Len(iss) |->
                Job(Key(i, title, "issue", iss[n], ""), sec.issueImages[iss[n]])]
        ELSE << >>)

\* _save_motor_tab / _save_compressor_tab / _save_coil_tab / _save_valve_tab
SectionJobs(kind, i, title, sec) ==
    IF SectionType(kind, title) = "component"
    THEN << Job(Key(i, title, "images", "", ""), sec.images) >>
         \o PatternJobs(i, title, sec,
                        IF kind = "motor" THEN title \in MotorSpecialTitles
                        ELSE kind = "valve")
    ELSE ElectricalJobs(i, title, sec, kind = "valve")

TabJobs(ts, i) ==
    LET secs == AllSections(ts[i].kind) IN
    Flatten([k \in 1..Len(secs) |->
                SectionJobs(ts[i].kind, i, secs[k][1], ts[i].secs[secs[k][1]])])

SaveJobs(ts) == Flatten([i \in 1..Len(ts) |-> TabJobs(ts, i)])

\* the calls run in order on the file system
RECURSIVE RunJobs(_, _, _)
RunJobs(fs, jobs, dest_folder) ==
    IF jobs = << >>
    THEN [fs |-> fs, out |-> << >>, copies |-> 0, overflow |-> FALSE]
    ELSE LET one  == CopyImages(fs, Head(jobs).paths, dest_folder)
             rest == RunJobs(one.fs, Tail(jobs), dest_folder)
         IN  [fs |-> rest.fs,
              out |-> << [key |-> Head(jobs).key, names |-> one.names] >> \o rest.out,
              copies |-> one.copies + rest.copies,
              overflow |-> one.overflow \/ rest.overflow]

\* what the call for the widget `key` returned ([] when there was no call)
Copied(out, key) ==
    IF \E j \in 1..Len(out) : out[j].key = key
    THEN LET j == CHOOSE k \in 1..Len(out) : out[k].key = key
         IN  [n \in 1..Len(out[j].names) |-> [abs |-> FALSE, name |-> out[j].names[n]]]
    ELSE << >>

\* a list of image_paths written to the file as it is (absolute paths)
Raw(paths) == [n \in 1..Len(paths) |-> [abs |-> TRUE, path |-> paths[n]]]

\* ------------------------------------------------------- the saved data
SeqToSet(q) == { q[j] : j \in 1..Len(q) }

\* section_info of a component section; obsImages is where the per-
\* observation image names go ('images' for a motor, 'observation_images'
\* for a valve, nothing for a compressor or a coil)
ComponentInfo(kind, i, title, sec, out) ==
    LET pats == get_selected_patterns(title, sec) IN
    [ title |-> title,
      type  |-> "component",
      selected_patterns |-> pats,
      observations |->
        [p \in SeqToSet(pats) |->
            LET ol == get_selected_observations(title, sec, p) IN
            [ selected |-> ol,
              obsImages |-> [o \in SeqToSet(ol) |->
                                Copied(out, Key(i, title, "obs", p, o))],
              pattern_images |-> Copied(out, Key(i, title, "pattern", p, "")) ]],
      custom_patterns |->
        LET cps == get_custom_patterns(title, sec) IN
        [j \in 1..Len(cps) |-> [cps[j] EXCEPT !.images = Raw(@)]],
      notes  |-> sec.notes,
      images |-> Copied(out, Key(i, title, "images", "", "")) ]

\* section_info of an electrical section: test_data is get_test_data() with
\* the image lists replaced by the copied names
ElectricalInfo(kind, i, title, sec, out) ==
    [ title |-> title,
      type  |-> SectionType(kind, title),
      notes |-> "",
      images |-> << >>,
      test_data |->
        [ ok             |-> sec.ok,
          not_ok         |-> sec.not_ok,
          ok_images      |-> Copied(out, Key(i, title, "ok", "", "")),
          issues         |-> CheckedIssues(sec),
          issue_images   |->
              [x \in SeqToSet(CheckedIssues(sec)) |->
                  Copied(out, Key(i, title, "issue", x, ""))],
          custom_patterns |-> ElectricalCustoms(sec),
          not_ok_images  |-> Copied(out, Key(i, title, "not_ok", "", "")),
          resistance     |-> Strip(sec.resistance),
          general_images |-> Copied(out, Key(i, title, "general", "", "")),
          notes          |-> sec.notes ] ]

SectionInfo(kind, i, title, sec, out) ==
    IF SectionType(kind, title) = "component"
    THEN ComponentInfo(kind, i, title, sec, out)
    ELSE ElectricalInfo(kind, i, title, sec, out)

\* the dict that save_progress / perform_autosave dump into report_state.json
SaveData(ts, id, out) ==
    [ header    |-> [rma |-> id],
      equipment |->
        [i \in 1..Len(ts) |->
            LET secs == AllSections(ts[i].kind) IN
            [ type     |-> ts[i].kind,
              name     |-> << ts[i].kind, ts[i].number >>,
              sections |-> [k \in 1..Len(secs) |->
                  SectionInfo(ts[i].kind, i, secs[k][1],
                              ts[i].secs[secs[k][1]], out)] ]] ]

\* the body shared by save_progress, perform_autosave and closeEvent up to
\* the dict: the images are copied into the project's images folder and the
\* dict holds the names the copies returned
BuildSave(ts, id, fs, save_path) ==
    LET run == RunJobs(fs, SaveJobs(ts), ImagesFolder(save_path)) IN
    [ fs |-> run.fs, data |-> SaveData(ts, id, run.out),
      copies |-> run.copies, overflow |-> run.overflow ]

\* ---------------------------------------------------------------- load
\* os.path.join(images_folder, img_name): an absolute img_name replaces the
\* folder
Resolve(images_folder, ref) ==
    IF ref.abs THEN ref.path ELSE Path(images_folder, ref.name)

\* for img_name in ...: if os.path.exists(img_path): widget.add_image(img_path)
RECURSIVE AddImages(_, _, _, _)
AddImages(paths, refs, fs, images_folder) ==
    IF refs = << >>
    THEN paths
    ELSE AddImages(AddImageTo(paths, Resolve(images_folder, Head(refs)), fs),
                   Tail(refs), fs, images_folder)

AnyExists(refs, fs, images_folder) ==
    \E j \in 1..Len(refs) : Resolve(images_folder, refs[j]) \in DOMAIN fs

\* the pattern_images branch of the loaders: _load_motor_tab adds them to
\* the pattern's widget, _load_compressor_tab and _load_coil_tab have no
\* such branch, _load_valve_tab calls section.get_pattern_image_widget,
\* which ComponentSection does not define (AttributeError)
LoadPatternImages(kind, st, pattern_name, refs, fs, images_folder) ==
    CASE kind = "motor" ->
            [st EXCEPT !.sec.patImages[pattern_name] =
                            AddImages(@, refs, fs, images_folder)]
      [] kind = "valve" ->
            IF AnyExists(refs, fs, images_folder)
            THEN [st EXCEPT !.failed = TRUE]
            ELSE st
      [] OTHER -> st

\* the body of "for pattern in section_info.get('selected_patterns', [])"
LoadPattern(kind, title, st, info, pattern_name, fs, images_folder) ==
    IF st.failed THEN st ELSE
    LET s1 == SetPatternChecked(title, st.sec, pattern_name, TRUE)
        od == info.observations[pattern_name]
        isIssue == pattern_name = IssuePattern(title)
        s2 == IF isIssue
              THEN [s1 EXCEPT !.obs = @ \cup (SeqToSet(od.selected) \cap ObsSet)]
              ELSE s1
        s3 == IF isIssue /\ kind \in {"motor", "valve"}
                 /\ title \in PerObsImageTitles
              THEN [s2 EXCEPT !.obsImages =
                      [o \in ObsSet |->
                          IF o \in DOMAIN od.obsImages
                          THEN AddImages(@[o], od.obsImages[o], fs, images_folder)
                          ELSE @[o]]]
              ELSE s2
    IN  LoadPatternImages(kind, [sec |-> s3, failed |-> FALSE], pattern_name,
                          od.pattern_images, fs, images_folder)

RECURSIVE LoadPatterns(_, _, _, _, _, _, _)
LoadPatterns(kind, title, st, info, pats, fs, images_folder) ==
    IF pats = << >>
    THEN st
    ELSE LoadPatterns(kind, title,
            LoadPattern(kind, title, st, info, Head(pats), fs, images_folder),
            info, Tail(pats), fs, images_folder)

\* the body of "for custom in section_info.get('custom_patterns', [])":
\* a new entry is added; its text is set when the saved entry has a 'text'
\* key; only _load_motor_tab restores its images
LoadCustom(kind, title, sec, custom, fs, images_folder) ==
    LET s1 == AddCustomTo(title, sec)
        n  == Len(s1.custom)
    IN  IF custom.form = "inline" /\ title \in InlineCustomTitles
        THEN [s1 EXCEPT !.custom[n].text = custom.text,
                        !.custom[n].images =
                            IF kind = "motor" /\ title \in PerObsImageTitles
                            THEN AddImages(@, custom.images, fs, images_folder)
                            ELSE @]
        ELSE s1

RECURSIVE LoadCustoms(_, _, _, _, _, _)
LoadCustoms(kind, title, sec, customs, fs, images_folder) ==
    IF customs = << >>
    THEN sec
    ELSE LoadCustoms(kind, title,
            LoadCustom(kind, title, sec, Head(customs), fs, images_folder),
            Tail(customs), fs, images_folder)

\* hasattr(section, 'notes_text') in _load_motor_tab and _load_valve_tab;
\* hasattr(section, 'notes_field') in _load_compressor_tab and
\* _load_coil_tab, an attribute ComponentSection does not have
NotesRestored(kind) == kind \in {"motor", "valve"}

\* a component section as _load_*_tab rebuilds it in a new tab; failed when
\* an exception left the loader
LoadComponent(kind, title, info, fs, images_folder) ==
    LET st == LoadPatterns(kind, title,
                  [sec |-> NewComponentSection(title), failed |-> FALSE],
                  info, info.selected_patterns, fs, images_folder)
    IN  IF st.failed THEN st ELSE
        LET s1 == LoadCustoms(kind, title, st.sec, info.custom_patterns,
                              fs, images_folder)
            s2 == IF NotesRestored(kind) THEN [s1 EXCEPT !.notes = info.notes]
                  ELSE s1
        IN  [sec |-> [s2 EXCEPT !.images =
                            AddImages(@, info.images, fs, images_folder)],
             failed |-> FALSE]

\* the two setChecked calls on status_ok_cb and status_not_ok_cb of a new
\* electrical section: the section after the first and after the second
LoadStatus(kind, td) ==
    LET s1 == SetStatusChecked(NewElectricalSection, TRUE, td.ok)
    IN  << s1,
           SetStatusChecked(s1, FALSE,
                            IF kind = "compressor" THEN ~td.ok ELSE td.not_ok) >>

\* an electrical section as _load_compressor_tab / _load_valve_tab rebuilds
\* it: the compressor loader derives both status boxes from 'ok' alone
LoadElectrical(kind, title, info, fs, images_folder) ==
    LET td == info.test_data
        s2 == LoadStatus(kind, td)[2]
        s3 == [s2 EXCEPT !.issues = SeqToSet(td.issues) \cap IssueSet,
                         !.resistance = td.resistance]
        s4 == IF kind = "valve"
              THEN [s3 EXCEPT !.issueImages =
                      [x \in IssueSet |->
                          IF x \in DOMAIN td.issue_images
                          THEN AddImages(@[x], td.issue_images[x], fs, images_folder)
                          ELSE @[x]],
                    !.notes = td.notes]
              ELSE s3
        s5 == [s4 EXCEPT !.custom =
                  [j \in 1..Len(td.custom_patterns) |->
                      [id |-> j - 1, text |-> td.custom_patterns[j].text,
                       obs |-> << >>, images |-> << >>]]]
    IN  [sec |-> [s5 EXCEPT
                    !.ok_images = AddImages(@, td.ok_images, fs, images_folder),
                    !.not_ok_images = AddImages(@, td.not_ok_images, fs, images_folder),
                    !.general_images = AddImages(@, td.general_images, fs, images_folder)],
         failed |-> FALSE]

LoadSection(kind, title, info, fs, images_folder) ==
    IF info.type = "component"
    THEN LoadComponent(kind, title, info, fs, images_folder)
    ELSE LoadElectrical(kind, title, info, fs, images_folder)

\* _load_motor_tab etc.: the sections of one new tab, in file order, until
\* one fails
RECURSIVE LoadSections(_, _, _, _, _)
LoadSections(kind, st, infos, fs, images_folder) ==
    IF infos = << >> \/ st.failed
    THEN st
    ELSE LET one == LoadSection(kind, Head(infos).title, Head(infos), fs, images_folder)
         IN  LoadSections(kind,
                [tab |-> [st.tab EXCEPT !.secs[Head(infos).title] = one.sec],
                 failed |-> one.failed],
                Tail(infos), fs, images_folder)

\* the loop "for equipment in data.get('equipment', [])": each unit is
\* added as a new tab and then filled
RECURSIVE LoadEquipment(_, _, _, _)
LoadEquipment(st, equipment, fs, images_folder) ==
    IF equipment = << >> \/ st.failed
    THEN st
    ELSE LET eq    == Head(equipment)
             added == AddTabTo(st.tabs, st.count, eq.type)
             n     == Len(added.tabs)
             one   == LoadSections(eq.type,
                          [tab |-> added.tabs[n], failed |-> FALSE],
                          eq.sections, fs, images_folder)
         IN  LoadEquipment(
                [tabs |-> [added.tabs EXCEPT ![n] = one.tab],
                 count |-> added.count, failed |-> one.failed],
                Tail(equipment), fs, images_folder)

\* ------------------------------------------------------------------ Init
NoPath == "None"

\* what a state file or user file holds: nothing, text that json.load
\* rejects, or the dumped dict
Absent == [st |-> "absent"]

Corrupt == [st |-> "corrupt"]

Saved(data) == [st |-> "ok", data |-> data]

\* ReportGeneratorApp.__init__: no tabs, counters 0, nothing saved yet
Init ==
    /\ tabs = << >>
    /\ count = [k \in Kinds |-> 0]
    /\ rma = ""
    /\ files = InitFiles
    /\ stateFile = [p \in RmaValues |-> Absent]
    /\ userFile = [p \in RmaValues |-> Absent]
    /\ last_save_path = NoPath
    /\ timerActive = FALSE
    /\ is_autosaving = FALSE
    /\ autosave = 0
    /\ lastOp = [op |-> "init"]
    /\ snapshot = [p \in RmaValues |-> << >>]

\* ------------------------------------------------------------ user edits
IsSection(i, title, types) ==
    /\ i \in 1..Len(tabs)
    /\ title \in Titles(tabs[i].kind)
    /\ SectionType(tabs[i].kind, title) \in types

ElectricalTypes == {"compressor_electrical", "valve_electrical"}

\* a handler that changes one section of one tab and nothing else
Edit(i, title, sec, op) ==
    /\ tabs' = [tabs EXCEPT ![i].secs[title] = sec]
    /\ lastOp' = op
    /\ UNCHANGED << count, rma, diskVars, autoVars >>

\* the user clicks a pattern check box of a component section
click_pattern(i, title, pattern_name) ==
    /\ IsSection(i, title, {"component"})
    /\ pattern_name \in SeqToSet(PatternOrder(title))
    /\ LET sec == tabs[i].secs[title] IN
       Edit(i, title,
            SetPatternChecked(title, sec, pattern_name,
                              pattern_name \notin sec.checked),
            [op |-> "click_pattern",
             switched |-> /\ pattern_name \notin sec.checked
                          /\ OtherStatus(pattern_name) \in sec.checked])

\* the user clicks an observation check box; its container is visible only
\* while its pattern is checked
click_observation(i, title, obs) ==
    /\ IsSection(i, title, {"component"})
    /\ obs \in ObsSet
    /\ IssuePattern(title) \in tabs[i].secs[title].checked
    /\ Edit(i, title,
            [tabs[i].secs[title] EXCEPT
                !.obs = IF obs \in @ THEN @ \ {obs} ELSE @ \cup {obs}],
            [op |-> "edit"])

\* the user clicks status_ok_cb (is_ok) or status_not_ok_cb of an
\* electrical section
click_status(i, title, is_ok) ==
    /\ IsSection(i, title, ElectricalTypes)
    /\ LET sec == tabs[i].secs[title]
           cur == IF is_ok THEN sec.ok ELSE sec.not_ok
       IN  Edit(i, title, SetStatusChecked(sec, is_ok, ~cur),
                [op |-> "click_status",
                 switched |-> ~cur /\ (IF is_ok THEN sec.not_ok ELSE sec.ok)])

\* the user clicks an issue check box; issues_container is visible only
\* while NOT OK is checked
click_issue(i, title, issue) ==
    /\ IsSection(i, title, ElectricalTypes)
    /\ issue \in IssueSet
    /\ tabs[i].secs[title].not_ok
    /\ Edit(i, title,
            [tabs[i].secs[title] EXCEPT
                !.issues = IF issue \in @ THEN @ \ {issue} ELSE @ \cup {issue}],
            [op |-> "edit"])

\* the user types into resistance_value
set_resistance(i, title, text) ==
    /\ IsSection(i, title, ElectricalTypes)
    /\ tabs[i].secs[title].resistance # text
    /\ Edit(i, title, [tabs[i].secs[title] EXCEPT !.resistance = text],
            [op |-> "edit"])

\* the user types into notes_text
set_notes(i, title, text) ==
    /\ IsSection(i, title, {"component"} \cup ElectricalTypes)
    /\ tabs[i].secs[title].notes # text
    /\ Edit(i, title, [tabs[i].secs[title] EXCEPT !.notes = text],
            [op |-> "edit"])

\* the "+ Add Custom ..." button of a component section: in a section with
\* status patterns it sits inside the NOT OK container
add_custom_pattern(i, title) ==
    /\ IsSection(i, title, {"component"})
    /\ Len(tabs[i].secs[title].custom) < MaxCustom
    /\ title \in StatusTitles => StatusNotOK \in tabs[i].secs[title].checked
    /\ Edit(i, title, AddCustomTo(title, tabs[i].secs[title]),
            [op |-> "edit"])

\* the Delete button of the entry at position k
delete_custom_pattern(i, title, k) ==
    /\ IsSection(i, title, {"component"})
    /\ k \in 1..Len(tabs[i].secs[title].custom)
    /\ title \in StatusTitles => StatusNotOK \in tabs[i].secs[title].checked
    /\ Edit(i, title,
            DeleteCustomFrom(tabs[i].secs[title], tabs[i].secs[title].custom[k].id),
            [op |-> "edit"])

\* the user types into the text (or name) input of the entry at position k
set_custom_text(i, title, k, text) ==
    /\ IsSection(i, title, {"component"})
    /\ k \in 1..Len(tabs[i].secs[title].custom)
    /\ title \in StatusTitles => StatusNotOK \in tabs[i].secs[title].checked
    /\ tabs[i].secs[title].custom[k].text # text
    /\ Edit(i, title, [tabs[i].secs[title] EXCEPT !.custom[k].text = text],
            [op |-> "edit"])

\* the user types into the first observation input of a named entry
set_custom_observation(i, title, k, text) ==
    /\ IsSection(i, title, {"component"})
    /\ title \notin InlineCustomTitles
    /\ k \in 1..Len(tabs[i].secs[title].custom)
    /\ title \in StatusTitles => StatusNotOK \in tabs[i].secs[title].checked
    /\ tabs[i].secs[title].custom[k].obs[1] # text
    /\ Edit(i, title, [tabs[i].secs[title] EXCEPT !.custom[k].obs[1] = text],
            [op |-> "edit"])

\* ImageUploadWidget.upload_images on one of the widgets of a component
\* section: the section's own widget ("images"), the widget of the NOT OK
\* pattern ("pattern") or of one of its observations ("obs"); the last two
\* are inside the pattern's container
upload_images(i, title, slot, obs, img_path) ==
    /\ IsSection(i, title, {"component"})
    /\ img_path \in DOMAIN files
    /\ LET sec == tabs[i].secs[title]
           isu == IssuePattern(title)
       IN  CASE slot = "images" ->
                  /\ Len(sec.images) < MaxImages
                  /\ ~InSeq(img_path, sec.images)
                  /\ Edit(i, title,
                          [sec EXCEPT !.images = AddImageTo(@, img_path, files)],
                          [op |-> "edit"])
             [] slot = "pattern" ->
                  /\ isu \in sec.checked
                  /\ Len(sec.patImages[isu]) < MaxImages
                  /\ ~InSeq(img_path, sec.patImages[isu])
                  /\ Edit(i, title,
                          [sec EXCEPT !.patImages[isu] = AddImageTo(@, img_path, files)],
                          [op |-> "edit"])
             [] slot = "obs" ->
                  /\ isu \in sec.checked
                  /\ title \in PerObsImageTitles
                  /\ obs \in sec.obs
                  /\ Len(sec.obsImages[obs]) < MaxImages
                  /\ ~InSeq(img_path, sec.obsImages[obs])
                  /\ Edit(i, title,
                          [sec EXCEPT !.obsImages[obs] = AddImageTo(@, img_path, files)],
                          [op |-> "edit"])

\* the user types the identifier into equipment_id
set_rma(text) ==
    /\ rma # text
    /\ rma' = text
    /\ lastOp' = [op |-> "edit"]
    /\ UNCHANGED << tabs, count, diskVars, autoVars >>

\* --------------------------------------------------------- save and load
\* save_progress with the dialog answered save_path, every write succeeding
save_progress(save_path) ==
    LET b == BuildSave(tabs, rma, files, save_path) IN
    /\ ~b.overflow
    /\ files' = b.fs
    /\ stateFile' = [stateFile EXCEPT ![save_path] = Saved(b.data)]
    /\ userFile' = [userFile EXCEPT ![save_path] = Saved(b.data)]
    /\ snapshot' = [snapshot EXCEPT ![save_path] = tabs]
    /\ last_save_path' = save_path
    /\ timerActive' = TRUE
    /\ lastOp' = [op |-> "save", path |-> save_path, copies |-> b.copies,
                  repeat |-> lastOp.op = "save" /\ lastOp.path = save_path]
    /\ UNCHANGED << recVars, is_autosaving, autosave >>

\* what report_state.json holds when "with open(json_path, 'w')" or
\* json.dump raises or the process dies there: open() failed and the file
\* is as it was, or the file was truncated and is empty or partly written
InterruptedWrite(before) == {before, Corrupt}

\* save_progress when the write of report_state.json fails: the images are
\* already copied, the except branch shows the message, shutil.copy and the
\* assignment of last_save_path are not reached
save_progress_fails(save_path) ==
    LET b == BuildSave(tabs, rma, files, save_path) IN
    /\ ~b.overflow
    /\ files' = b.fs
    /\ \E after \in InterruptedWrite(stateFile[save_path]) :
          stateFile' = [stateFile EXCEPT ![save_path] = after]
    /\ lastOp' = [op |-> "save_failed", path |-> save_path]
    /\ UNCHANGED << recVars, userFile, snapshot, autoVars >>

\* a load that clears the tabs and counters before it parses the file
ParseFailureCleared(ts, cnt, id) ==
    [tabs |-> << >>, count |-> [k \in Kinds |-> 0], rma |-> id]

\* the record after json.load raised: nothing has been touched yet
ParseFailure(ts, cnt, id) == [tabs |-> ts, count |-> cnt, rma |-> id]

\* the status boxes of a section as a pair
StatusPair(kind, title, sec) ==
    IF SectionType(kind, title) = "component"
    THEN [ok |-> StatusOK \in sec.checked, not_ok |-> StatusNotOK \in sec.checked]
    ELSE [ok |-> sec.ok, not_ok |-> sec.not_ok]

\* the status pairs that the sections show after each setChecked call of a
\* load of `data`
LoadStatusTrace(data, fs, images_folder) ==
    UNION { UNION {
        LET eq   == data.equipment[u]
            info == eq.sections[k]
        IN  IF info.type = "component"
            THEN { StatusPair(eq.type, info.title,
                      LoadPatterns(eq.type, info.title,
                          [sec |-> NewComponentSection(info.title), failed |-> FALSE],
                          info, SubSeq(info.selected_patterns, 1, n),
                          fs, images_folder).sec)
                   : n \in 0..Len(info.selected_patterns) }
            ELSE { StatusPair(eq.type, info.title, LoadStatus(eq.type, info.test_data)[n])
                   : n \in 1..2 }
        : k \in 1..Len(data.equipment[u].sections) }
        : u \in 1..Len(data.equipment) }

\* load_progress_from_path(load_path)
load_progress_from_path(load_path) ==
    IF userFile[load_path] = Absent
    THEN \* "File Not Found"
         /\ lastOp' = [op |-> "load", ok |-> FALSE, why |-> "not_found"]
         /\ UNCHANGED << recVars, diskVars, autoVars >>
    ELSE
    LET json_path == IF stateFile[load_path] # Absent
                     THEN stateFile[load_path] ELSE userFile[load_path]
    IN  IF json_path = Corrupt
        THEN \* json.JSONDecodeError
             LET r == ParseFailure(tabs, count, rma) IN
             /\ tabs' = r.tabs
             /\ count' = r.count
             /\ rma' = r.rma
             /\ lastOp' = [op |-> "load", ok |-> FALSE, why |-> "invalid_json"]
             /\ UNCHANGED << diskVars, autoVars >>
        ELSE
        LET data == json_path.data
            st   == LoadEquipment([tabs |-> << >>, count |-> [k \in Kinds |-> 0],
                                   failed |-> FALSE],
                                  data.equipment, files, ImagesFolder(load_path))
            trace == LoadStatusTrace(data, files, ImagesFolder(load_path))
        IN  /\ tabs' = st.tabs
            /\ count' = st.count
            /\ rma' = data.header.rma
            /\ IF st.failed
               THEN \* an exception left a loader: "Failed to load progress"
                    /\ lastOp' = [op |-> "load", ok |-> FALSE, why |-> "exception"]
                    /\ UNCHANGED << diskVars, autoVars >>
               ELSE /\ last_save_path' = load_path
                    /\ timerActive' = TRUE
                    /\ lastOp' = [op |-> "load", ok |-> TRUE, why |-> "",
                                  path |-> load_path, data |-> data,
                                  trace |-> trace]
                    /\ UNCHANGED << diskVars, is_autosaving, autosave >>

\* --------------------------------------------------------------- autosave
\* a check that looks at the remembered path only
HasSavePath(path, id) == path # NoPath

\* has_matching_save_file
has_matching_save_file(path, id) ==
    /\ path # NoPath
    /\ Strip(id) # ""
    /\ path = Strip(id)

\* a guard that ignores the in-progress flag
SkipUnlessUnmatched(matching, flag) == ~matching

\* perform_autosave, the first line: return when nothing matches or an
\* autosave is running
SkipAutosave(matching, flag) == ~matching \/ flag

\* perform_autosave from its start to QApplication.processEvents()
perform_autosave ==
    IF SkipAutosave(has_matching_save_file(last_save_path, rma), is_autosaving)
    THEN /\ lastOp' = [op |-> "autosave_skipped", nested |-> autosave > 0]
         /\ UNCHANGED << recVars, diskVars, autoVars >>
    ELSE /\ autosave < MaxTicks
         /\ is_autosaving' = TRUE
         /\ autosave' = autosave + 1
         /\ lastOp' = [op |-> "autosave_begin", nested |-> autosave > 0]
         /\ UNCHANGED << recVars, diskVars, last_save_path, timerActive >>

\* the timeout signal of autosave_timer, delivered by the event loop (also
\* by the QApplication.processEvents() call of a running autosave)
timer_tick ==
    /\ timerActive
    /\ perform_autosave

\* a finally branch that clears the flag only after a successful write
AutosaveFinallyOnSuccess(failed) == failed

\* perform_autosave, the finally branch: is_autosaving after the try block
\* was left, normally or through the except branch
AutosaveFinally(failed) == FALSE

\* perform_autosave after processEvents() returned: the files are written
\* for the path that last_save_path holds now, or the write of the state
\* file raises; the finally branch clears the flag
perform_autosave_finish ==
    /\ autosave > 0
    /\ LET b == BuildSave(tabs, rma, files, last_save_path) IN
       /\ ~b.overflow
       /\ files' = b.fs
       /\ \/ /\ stateFile' = [stateFile EXCEPT ![last_save_path] = Saved(b.data)]
             /\ userFile' = [userFile EXCEPT ![last_save_path] = Saved(b.data)]
             /\ snapshot' = [snapshot EXCEPT ![last_save_path] = tabs]
             /\ lastOp' = [op |-> "autosave", path |-> last_save_path]
             /\ is_autosaving' = AutosaveFinally(FALSE)
          \/ /\ \E after \in InterruptedWrite(stateFile[last_save_path]) :
                   stateFile' = [stateFile EXCEPT ![last_save_path] = after]
             /\ UNCHANGED << userFile, snapshot >>
             /\ lastOp' = [op |-> "autosave_failed", path |-> last_save_path]
             /\ is_autosaving' = AutosaveFinally(TRUE)
    /\ autosave' = autosave - 1
    /\ UNCHANGED << recVars, last_save_path, timerActive >>

\* --------------------------------------------- adding and removing units
NextTabs ==
    \/ add_motor_tab
    \/ add_compressor_tab
    \/ add_coil_tab
    \/ add_valve_tab
    \/ remove_equipment_tab

SpecTabs == Init /\ [][NextTabs]_vars

\* the ordinals of the tabs of one kind, read in tab order
Ordinals(ts, kind) ==
    [n \in 1..ListLen(ts, kind) |->
        LET j == CHOOSE i \in 1..Len(ts) :
                    ts[i].kind = kind /\ CountKind(ts, kind, i) = n
        IN  ts[j].number]

\* C1: after any sequence of add and confirmed remove operations from the
\* empty record, the ordinals of each kind read in tab order are 1, 2, .., N
\* (N the number of open units of the kind) and the kind's counter is N.
C1_DenseOrdinals ==
    \A k \in Kinds :
        /\ Ordinals(tabs, k) = [n \in 1..ListLen(tabs, k) |-> n]
        /\ count[k] = ListLen(tabs, k)

\* a unit was removed from in front of two remaining units of its kind
C1_Witness ==
    /\ lastOp.op = "remove"
    /\ ListLen(tabs, lastOp.kind) = 2
    /\ Len(tabs) = 3

\* ------------------------------------------------------ status check boxes
AllTitles == UNION { Titles(k) : k \in Kinds }

\* one more unit while fewer than MaxUnits are open
add_unit ==
    /\ Len(tabs) < MaxUnits
    /\ \E k \in Kinds : AddTab(k)

NextStatus ==
    \/ add_unit
    \/ remove_equipment_tab
    \/ \E i \in 1..Len(tabs), title \in AllTitles :
          \E p \in SeqToSet(PatternOrder(title)) : click_pattern(i, title, p)
    \/ \E i \in 1..Len(tabs), title \in AllTitles, is_ok \in BOOLEAN :
          click_status(i, title, is_ok)
    \/ save_progress("R1")
    \/ load_progress_from_path("R1")

SpecStatus == Init /\ [][NextStatus]_vars

\* the sections with the two status boxes
StatusBearing(kind, title) ==
    title \in StatusTitles \/ SectionType(kind, title) \in ElectricalTypes

BothSelected(pair) == pair.ok /\ pair.not_ok

\* C2: in every section with status boxes, after any sequence of clicks on
\* them, saves and loads, at most one of "Status: OK" and "Status: NOT OK"
\* is selected, and the same holds after each of the checks a load makes.
C2_AtMostOneStatus ==
    /\ \A i \in 1..Len(tabs) : \A title \in Titles(tabs[i].kind) :
          StatusBearing(tabs[i].kind, title) =>
             ~BothSelected(StatusPair(tabs[i].kind, title, tabs[i].secs[title]))
    /\ (lastOp.op = "load" /\ lastOp.ok) =>
          \A pair \in lastOp.trace : ~BothSelected(pair)

\* a status box was checked while the other one was checked, in a component
\* section, and the other one is now unchecked
C2_Witness ==
    /\ lastOp.op = "click_pattern"
    /\ lastOp.switched
    /\ \E i \in 1..Len(tabs) : \E title \in Titles(tabs[i].kind) :
          /\ title \in StatusTitles
          /\ tabs[i].secs[title].checked = {StatusOK}

\* ------------------------------------------------------- save, then load
\* The sessions explored here edit a record, then save and load it: the
\* edits stop at the first write of a state file.
Unsaved == \A p \in RmaValues : stateFile[p] = Absent

NextPersist ==
    \/ Unsaved /\ add_unit
    \/ Unsaved /\ remove_equipment_tab
    \/ /\ Unsaved
       /\ \E i \in 1..Len(tabs), title \in AllTitles :
             \E p \in SeqToSet(PatternOrder(title)) : click_pattern(i, title, p)
    \/ /\ Unsaved
       /\ \E i \in 1..Len(tabs), title \in AllTitles, is_ok \in BOOLEAN :
             click_status(i, title, is_ok)
    \/ /\ Unsaved
       /\ \E i \in 1..Len(tabs), title \in AllTitles, text \in {"", "t1"} :
             set_notes(i, title, text)
    \/ /\ Unsaved
       /\ \E i \in 1..Len(tabs), title \in AllTitles, text \in {"", " t1 "} :
             set_resistance(i, title, text)
    \/ /\ Unsaved
       /\ \E i \in 1..Len(tabs), title \in AllTitles :
             upload_images(i, title, "images", "", Path("d1", << "a" >>))
    \/ Unsaved /\ set_rma("R1")
    \/ save_progress("R1")
    \/ save_progress_fails("R1")
    \/ load_progress_from_path("R1")

SpecPersist == Init /\ [][NextPersist]_vars

\* C3: after a successful load, saving the record that the load built
\* gives the data that was loaded, in every field of the file (header,
\* units and their order, selected patterns and observations, custom
\* entries, notes, test data, stored image names).
C3_RoundTrip ==
    (lastOp.op = "load" /\ lastOp.ok) =>
        BuildSave(tabs, rma, files, lastOp.path).data = lastOp.data

\* C8: when the write of the state file failed, the state file of the
\* project folder still equals the user-facing file, which holds the last
\* successfully saved record.
C8_PreviousBundleIntact ==
    (lastOp.op \in {"save_failed", "autosave_failed"}
        /\ userFile[lastOp.path] # Absent) =>
            stateFile[lastOp.path] = userFile[lastOp.path]

\* C9: a load whose state file cannot be parsed fails and leaves the header,
\* the units with their sections, the counters and the remembered save path
\* as they were.
C9_FailedParseKeepsRecord ==
    [][ (lastOp'.op = "load" /\ ~lastOp'.ok /\ lastOp'.why = "invalid_json")
            => UNCHANGED << tabs, count, rma, last_save_path >> ]_vars

\* a load of a path whose state file is unparsable was refused while a unit
\* with notes was open and a save path was remembered
C9_Witness ==
    /\ lastOp.op = "load"
    /\ ~lastOp.ok
    /\ lastOp.why = "invalid_json"
    /\ last_save_path # NoPath
    /\ \E i \in 1..Len(tabs) : \E title \in Titles(tabs[i].kind) :
          tabs[i].secs[title].notes = "t1"

\* ------------------------------------- a motor's special section, round trip
MotorHousing == "Motor Housing"

NextRoundTrip ==
    \/ Unsaved /\ Len(tabs) < MaxUnits /\ add_motor_tab
    \/ /\ Unsaved
       /\ \E i \in 1..Len(tabs), p \in {StatusOK, StatusNotOK} :
             click_pattern(i, MotorHousing, p)
    \/ /\ Unsaved
       /\ \E i \in 1..Len(tabs), o \in ObsSet : click_observation(i, MotorHousing, o)
    \/ /\ Unsaved
       /\ \E i \in 1..Len(tabs), o \in ObsSet :
             \E img_path \in {Path("d1", << "a" >>), Path("d2", << "a" >>)} :
                upload_images(i, MotorHousing, "obs", o, img_path)
    \/ /\ Unsaved
       /\ \E i \in 1..Len(tabs) : add_custom_pattern(i, MotorHousing)
    \/ /\ Unsaved
       /\ \E i \in 1..Len(tabs), k \in 1..MaxCustom, text \in Texts :
             set_custom_text(i, MotorHousing, k, text)
    \/ save_progress("R1")
    \/ load_progress_from_path("R1")

SpecRoundTrip == Init /\ [][NextRoundTrip]_vars

\* the texts of the custom entries of a section, in order
CustomTexts(title, sec) ==
    [k \in 1..Len(get_custom_patterns(title, sec)) |->
        get_custom_patterns(title, sec)[k].text]

\* C4: a motor whose special section had "Status: NOT OK" selected when it
\* was saved comes back from a load with the same selected patterns, the
\* same selected observations, for each of them as many images as before,
\* with the same bytes and now inside the project's images folder, and the
\* same custom issue texts.
C4_MotorSpecialRoundTrip ==
    (lastOp.op = "load" /\ lastOp.ok) =>
        \A u \in 1..Len(snapshot[lastOp.path]) :
            LET orig == snapshot[lastOp.path][u].secs[MotorHousing]
                now  == tabs[u].secs[MotorHousing]
            IN  StatusNotOK \in orig.checked =>
                  /\ now.checked = orig.checked
                  /\ now.obs = orig.obs
                  /\ \A o \in orig.obs :
                        /\ Len(now.obsImages[o]) = Len(orig.obsImages[o])
                        /\ \A k \in 1..Len(orig.obsImages[o]) :
                              /\ now.obsImages[o][k].dir = ImagesFolder(lastOp.path)
                              /\ files[now.obsImages[o][k]] = files[orig.obsImages[o][k]]
                  /\ CustomTexts(MotorHousing, now) = CustomTexts(MotorHousing, orig)

\* a motor was saved and loaded that had NOT OK selected with both
\* observations selected, an image on the first only, one custom issue
C4_Witness ==
    /\ lastOp.op = "load"
    /\ lastOp.ok
    /\ Len(tabs) = 1
    /\ LET orig == snapshot["R1"][1].secs[MotorHousing]
           now  == tabs[1].secs[MotorHousing]
       IN  /\ orig.checked = {StatusNotOK}
           /\ orig.obs = {"o1", "o2"}
           /\ orig.obsImages["o1"] = << Path("d1", << "a" >>) >>
           /\ orig.obsImages["o2"] = << >>
           /\ CustomTexts(MotorHousing, orig) = << "t1" >>
           /\ now.obsImages["o1"] = << Path(ImagesFolder("R1"), << "a" >>) >>
           /\ Len(now.custom) = 1

\* ---------------------------------------------------------- the image store
VisualInspection == "Visual Inspection"

NextImages ==
    \/ Len(tabs) < MaxUnits /\ add_coil_tab
    \/ remove_equipment_tab
    \/ \E i \in 1..Len(tabs), img_path \in SrcPaths :
          upload_images(i, VisualInspection, "images", "", img_path)
    \/ save_progress("R1")
    \/ load_progress_from_path("R1")

SpecImages == Init /\ [][NextImages]_vars

SectionIndex(kind, title) ==
    CHOOSE k \in 1..Len(AllSections(kind)) : AllSections(kind)[k][1] = title

\* the stored names that a state file holds for the images of a section
StoredNames(data, u, title) ==
    LET imgs == data.equipment[u].sections[
                    SectionIndex(data.equipment[u].type, title)].images
    IN  [k \in 1..Len(imgs) |-> imgs[k].name]

\* C5: after a save, two images of a section that have the same bytes are
\* recorded under the same stored name.
C5_SameContentSameName ==
    lastOp.op = "save" =>
        \A u \in 1..Len(tabs) :
            LET imgs  == tabs[u].secs[VisualInspection].images
                names == StoredNames(stateFile[lastOp.path].data, u, VisualInspection)
            IN  \A k1, k2 \in 1..Len(imgs) :
                    files[imgs[k1]] = files[imgs[k2]] => names[k1] = names[k2]

\* C6: no step changes or removes a file that exists, and a save records
\* for every image a stored name that holds the image's bytes; when the
\* image's own name was taken by a file with other bytes, the stored name is
\* that name with a numeric suffix.
C6_NeverOverwrites ==
    [][ /\ \A q \in DOMAIN files : q \in DOMAIN files' /\ files'[q] = files[q]
        /\ lastOp'.op = "save" =>
             \A u \in 1..Len(tabs) :
                LET imgs   == tabs[u].secs[VisualInspection].images
                    folder == ImagesFolder(lastOp'.path)
                    names  == StoredNames(stateFile'[lastOp'.path].data, u,
                                          VisualInspection)
                IN  \A k \in 1..Len(imgs) :
                       /\ files'[Path(folder, names[k])] = files[imgs[k]]
                       /\ ( /\ Path(folder, imgs[k].name) \in DOMAIN files
                            /\ files[Path(folder, imgs[k].name)] # files[imgs[k]] )
                          => \E c \in 1..MaxSuffix :
                                names[k] = Numbered(imgs[k].name, c)
      ]_vars

\* a save stored an image under a suffixed name because its own name was
\* held by a file with other bytes
C6_Witness ==
    /\ lastOp.op = "save"
    /\ \E u \in 1..Len(tabs) :
          \E k \in 1..Len(tabs[u].secs[VisualInspection].images) :
             LET img  == tabs[u].secs[VisualInspection].images[k]
                 name == StoredNames(stateFile["R1"].data, u, VisualInspection)[k]
             IN  /\ img.dir \in SrcDirs
                 /\ name = Numbered(img.name, 1)
                 /\ files[Path(ImagesFolder("R1"), img.name)] # files[img]
                 /\ files[Path(ImagesFolder("R1"), name)] = files[img]

\* C7: a save that directly follows a save to the same path copies no
\* image, leaves every file and the state file as they are, and so records
\* the same stored names.
C7_SecondSaveCopiesNothing ==
    [][ (lastOp'.op = "save" /\ lastOp'.repeat) =>
            /\ lastOp'.copies = 0
            /\ files' = files
            /\ stateFile' = stateFile
            /\ userFile' = userFile ]_vars

\* a loaded record with an image, whose source is the stored file, was
\* saved twice in a row
C7_Witness ==
    /\ lastOp.op = "save"
    /\ lastOp.repeat
    /\ \E u \in 1..Len(tabs) :
          /\ tabs[u].secs[VisualInspection].images # << >>
          /\ \A k \in 1..Len(tabs[u].secs[VisualInspection].images) :
                tabs[u].secs[VisualInspection].images[k].dir = ImagesFolder("R1")

\* --------------------------------------------------------------- autosave
\* what the user types into equipment_id
RmaTexts == RmaValues \cup {"", " R1 "}

NextAutosave ==
    \/ Len(tabs) < MaxUnits /\ add_coil_tab
    \/ \E text \in RmaTexts : set_rma(text)
    \/ save_progress("R1")
    \/ timer_tick
    \/ perform_autosave_finish

SpecAutosave == Init /\ [][NextAutosave]_vars

\* C10: never more than one perform_autosave is past its guard, and a tick
\* that arrives while is_autosaving is set returns at the guard: it changes
\* no file, no field of the record, no flag and no timer, so nothing of it
\* is left to run later.
C10_AutosaveGuarded ==
    [][ /\ autosave' <= 1
        /\ (lastOp'.op = "autosave_skipped" /\ is_autosaving)
             => UNCHANGED << recVars, diskVars, autoVars >> ]_vars

\* a tick was delivered while an autosave was inside processEvents() and
\* returned at the guard
C10_Witness ==
    /\ lastOp.op = "autosave_skipped"
    /\ lastOp.nested
    /\ is_autosaving
    /\ autosave = 1

\* C11: a tick passes the guard of perform_autosave only in a state where a
\* save path is remembered and the identifier, trimmed, is non-empty and is
\* the base name of that path; a tick in any other state returns at the
\* guard and changes no file, no field and no flag; and the files are
\* written by autosave only for a tick that passed the guard.
C11_TickWritesOnlyWhenMatching ==
    [][ /\ lastOp'.op = "autosave_begin" =>
              /\ last_save_path # NoPath
              /\ Strip(rma) # ""
              /\ Strip(rma) = last_save_path
        /\ lastOp'.op = "autosave_skipped" =>
              UNCHANGED << recVars, diskVars, autoVars >>
        /\ lastOp'.op \in {"autosave", "autosave_failed"} => autosave > 0 ]_vars

\* an autosave wrote the files while the identifier matched the path only
\* after trimming
C11_Witness ==
    /\ lastOp.op = "autosave"
    /\ rma = " R1 "
    /\ last_save_path = "R1"
    /\ stateFile["R1"] # Absent
    /\ stateFile["R1"] # Corrupt
    /\ stateFile["R1"].data.header.rma = " R1 "

\* the event loop delivers the timeout signal again and again, and a
\* perform_autosave that is past its guard runs to its end
SpecAutosaveLive ==
    /\ Init
    /\ [][NextAutosave]_vars
    /\ WF_vars(timer_tick)
    /\ WF_vars(perform_autosave_finish)

\* C12: a failed autosave attempt returns normally with is_autosaving reset,
\* the timer still active and the remembered path kept, and from then on a
\* tick passes the guard again unless the identifier stops matching.
C12_FailedAutosaveRetried ==
    /\ [][ lastOp'.op = "autosave_failed" =>
              /\ ~is_autosaving'
              /\ timerActive'
              /\ last_save_path' = last_save_path
              /\ UNCHANGED recVars ]_vars
    /\ [](lastOp.op = "autosave_failed" =>
            <>(\/ lastOp.op = "autosave_begin"
               \/ ~has_matching_save_file(last_save_path, rma)))

\* an autosave left the state file half written, and a later tick passed the
\* guard and started a new attempt
C12_Witness ==
    /\ lastOp.op = "autosave_begin"
    /\ is_autosaving
    /\ timerActive
    /\ stateFile["R1"] = Corrupt

\* ------------------------------------------------- test result readings
\* A text is a sequence of characters. A number is the float that
\* float(token) yields, held exactly as sign, digits and the count of
\* digits behind the point: [num |-> 835, exp |-> 1] is 83.5.
MaxLen == 4

MaxVib == 900

Digits == << "0", "1", "2", "3", "4", "5", "6", "7", "8", "9" >>

DigitSet == { Digits[i] : i \in 1..10 }

DigitValue(c) == (CHOOSE i \in 1..10 : Digits[i] = c) - 1

NoneValue == [some |-> FALSE, neg |-> FALSE, num |-> 0, exp |-> 0]

\* str.strip()
StripText(text) ==
    LET idx == { i \in 1..Len(text) : text[i] # " " } IN
    IF idx = {} THEN << >>
    ELSE SubSeq(text, CHOOSE i \in idx : \A j \in idx : i <= j,
                      CHOOSE i \in idx : \A j \in idx : i >= j)

\* re.search(r'[-+]?\d*\.?\d+', t): the first start position, left to
\* right, at which the pattern matches; at one position the alternatives
\* are tried in the order of a backtracking matcher ([-+]? taken before
\* skipped, \d* longest first, \.? taken before skipped, \d+ longest).
\* The match object is the matched token.
re_search(t) ==
    LET Run(p) == CHOOSE k \in 0..Len(t) :
                     /\ \A q \in p..(p + k - 1) : q <= Len(t) /\ t[q] \in DigitSet
                     /\ ~(p + k <= Len(t) /\ t[p + k] \in DigitSet)
        \* the position behind the match when \d* takes k digits at p, or
        \* fewer when no continuation matches; 0 when nothing matches
        RECURSIVE Rest(_, _)
        Rest(p, k) ==
            IF k < 0 THEN 0
            ELSE LET q == p + k IN
                 IF q <= Len(t) /\ t[q] = "." /\ Run(q + 1) >= 1
                 THEN q + 1 + Run(q + 1)
                 ELSE IF Run(q) >= 1 THEN q + Run(q)
                 ELSE Rest(p, k - 1)
        At(i) == LET signed == IF t[i] \in {"-", "+"}
                               THEN Rest(i + 1, Run(i + 1)) ELSE 0
                 IN  IF signed # 0 THEN signed ELSE Rest(i, Run(i))
        starts == { i \in 1..Len(t) : At(i) # 0 }
    IN  IF starts = {} THEN [found |-> FALSE, token |-> << >>]
        ELSE LET i == CHOOSE a \in starts : \A b \in starts : a <= b
             IN  [found |-> TRUE, token |-> SubSeq(t, i, At(i) - 1)]

\* float(token) of a token of sign, digits, point, digits
FloatOf(token) ==
    LET neg    == token[1] = "-"
        body   == IF token[1] \in {"-", "+"} THEN Tail(token) ELSE token
        dots   == { i \in 1..Len(body) : body[i] = "." }
        digits == SelectSeq(body, LAMBDA c : c # ".")
        RECURSIVE Value(_)
        Value(ds) == IF ds = << >> THEN 0
                     ELSE 10 * Value(SubSeq(ds, 1, Len(ds) - 1))
                          + DigitValue(ds[Len(ds)])
    IN  [some |-> TRUE, neg |-> neg, num |-> Value(digits),
         exp |-> IF dots = {} THEN 0
                 ELSE Len(body) - (CHOOSE i \in dots : TRUE)]

\* an extraction that drops the sign of the token
ExtractUnsigned(text) ==
    LET match == re_search(StripText(text)) IN
    IF match.found THEN [FloatOf(match.token) EXCEPT !.neg = FALSE] ELSE NoneValue

\* TestResultsSection.extract_numeric_value
extract_numeric_value(text) ==
    IF text = << >> THEN NoneValue
    ELSE LET match == re_search(StripText(text)) IN
         IF match.found THEN FloatOf(match.token) ELSE NoneValue

\* the labels of the severity chart with the base of each threshold in
\* hundredths of a mm/s, in the order of the if / elif chain
Bands ==
    << << 28, "Extremely Smooth", TRUE >>, << 45, "Very Smooth", TRUE >>,
       << 71, "Smooth", TRUE >>, << 112, "Good", TRUE >>,
       << 180, "Fair", FALSE >>, << 280, "Slightly Rough", FALSE >>,
       << 450, "Rough", FALSE >>, << 710, "Very Rough", FALSE >> >>

\* the products base * rpm_factor whose double is smaller than the double of
\* their decimal value, for the speeds of RpmValues: math.pow(1.44, 0.5) is
\* the double of 1.2, which lies below 1.2, and 4.5 times it rounds to
\* 5.3999999999999995, below the double of 5.4
RoundedDown == { << 450, 1440 >> }

\* TestResultsSection.get_vibration_classification for a whole number rpm
\* and a vibration value of at most two decimals: value <= base * sqrt(rpm /
\* 1000) is compared through the squares of both sides, and where the two
\* sides are equal as reals the rounding of the product decides
get_vibration_classification(rpm, vibration_value) ==
    IF ~rpm.some \/ ~vibration_value.some \/ (rpm.neg /\ rpm.num # 0)
    THEN [label |-> "Unable to classify", ok |-> FALSE]
    ELSE
    LET v == vibration_value.num *
             (CASE vibration_value.exp = 0 -> 100
                [] vibration_value.exp = 1 -> 10
                [] vibration_value.exp = 2 -> 1)
        r == rpm.num
        Below(b) == \/ vibration_value.neg
                    \/ v * v * 1000 < b * b * r
                    \/ /\ v * v * 1000 = b * b * r
                       /\ << b, r >> \notin RoundedDown
        hits == { k \in 1..Len(Bands) : Below(Bands[k][1]) }
    IN  IF hits = {} THEN [label |-> "Extremely Rough", ok |-> FALSE]
        ELSE LET k == CHOOSE a \in hits : \A b \in hits : a <= b
             IN  [label |-> Bands[k][2], ok |-> Bands[k][3]]

\* TestResultsSection.get_test_data: the readings typed into audio_value,
\* vibration_rpm and vibration_value, and what is derived from them
get_test_data(audio_value, vibration_rpm, vibration_value) ==
    LET audio_numeric == extract_numeric_value(StripText(audio_value))
        rpm_numeric   == extract_numeric_value(StripText(vibration_rpm))
        value_numeric == extract_numeric_value(StripText(vibration_value))
        Pow10(n) == CASE n = 0 -> 1 [] n = 1 -> 10 [] n = 2 -> 100
                      [] n = 3 -> 1000 [] n = 4 -> 10000 [] OTHER -> 100000
        measured == /\ rpm_numeric.some /\ rpm_numeric.num # 0
                    /\ value_numeric.some /\ value_numeric.num # 0
        class == IF measured
                 THEN get_vibration_classification(rpm_numeric, value_numeric)
                 ELSE [label |-> "Not measured", ok |-> FALSE]
    IN  /\ lastOp' = [op |-> "get_test_data",
                      audio_value |-> audio_value,
                      audio_numeric |-> audio_numeric,
                      audio_ok |-> /\ audio_numeric.some
                                   /\ \/ audio_numeric.neg
                                      \/ audio_numeric.num
                                           <= 72 * Pow10(audio_numeric.exp),
                      rpm_numeric |-> rpm_numeric,
                      value_numeric |-> value_numeric,
                      measured |-> measured,
                      classification |-> class.label,
                      vibration_ok |-> class.ok]
        /\ UNCHANGED << recVars, diskVars, autoVars >>

\* ------------------------------------------------------------ numbers
\* the characters typed into a reading
Chars == {"5", "8", ".", "-", "+", "d", " "}

\* the reading is taken again after each character typed into audio_value
NextExtract ==
    LET typed == IF lastOp.op = "get_test_data" THEN lastOp.audio_value ELSE << >>
    IN  /\ Len(typed) < MaxLen
        /\ \E c \in Chars : get_test_data(Append(typed, c), << >>, << >>)

SpecExtract == Init /\ [][NextExtract]_vars

\* a signed decimal token: an optional sign, then digits with at most one
\* point among them and a digit at the end
IsToken(s) ==
    LET body == IF s # << >> /\ s[1] \in {"-", "+"} THEN Tail(s) ELSE s IN
    /\ body # << >>
    /\ body[Len(body)] \in DigitSet
    /\ \A i \in 1..Len(body) : body[i] \in DigitSet \cup {"."}
    /\ Cardinality({ i \in 1..Len(body) : body[i] = "." }) <= 1

\* the token that starts first in t and, among those, reaches furthest
FirstToken(t) ==
    LET spans == { ij \in (1..Len(t)) \X (1..Len(t)) :
                      ij[1] <= ij[2] /\ IsToken(SubSeq(t, ij[1], ij[2])) }
        first == CHOOSE a \in spans :
                    \A b \in spans : a[1] < b[1] \/ (a[1] = b[1] /\ a[2] >= b[2])
    IN  SubSeq(t, first[1], first[2])

\* C15: the number extracted from a text is None exactly when the text is
\* empty or holds no digit, and otherwise is the value of the first signed
\* decimal token of the text read from the left; the extraction always
\* returns.
C15_FirstDecimalToken ==
    lastOp.op = "get_test_data" =>
        LET t == lastOp.audio_value IN
        IF \A i \in 1..Len(t) : t[i] \notin DigitSet
        THEN lastOp.audio_numeric = NoneValue
        ELSE lastOp.audio_numeric = FloatOf(FirstToken(t))

\* "8.5d" was read as 8.5
C15_Witness ==
    /\ lastOp.op = "get_test_data"
    /\ lastOp.audio_value = << "8", ".", "5", "d" >>
    /\ lastOp.audio_numeric = [some |-> TRUE, neg |-> FALSE, num |-> 85, exp |-> 1]

\* --------------------------------------------------- vibration severity
RpmValues == { 1000, 1400, 1440 }

\* str(n) of a natural number
Decimal(n) ==
    LET RECURSIVE Text(_)
        Text(m) == IF m < 10 THEN << Digits[m + 1] >>
                   ELSE Append(Text(m \div 10), Digits[(m % 10) + 1])
    IN  Text(n)

\* a value of v hundredths written with two decimals
Hundredths(v) ==
    Decimal(v \div 100) \o << ".", Digits[((v \div 10) % 10) + 1], Digits[(v % 10) + 1] >>

\* the reading as a number of hundredths
AsHundredths(x) == x.num * (CASE x.exp = 0 -> 100 [] x.exp = 1 -> 10 [] x.exp = 2 -> 1)

\* the reading is taken at one speed after another, the value raised by
\* one hundredth each time
NextVibration ==
    LET v == IF lastOp.op = "get_test_data" /\ lastOp.value_numeric.some
             THEN AsHundredths(lastOp.value_numeric) + 1 ELSE 0
    IN  /\ v <= MaxVib
        /\ \E r \in RpmValues : get_test_data(<< >>, Decimal(r), Hundredths(v))

SpecVibration == Init /\ [][NextVibration]_vars

\* C13: rpm 1400 with 1.1 mm/s is classified "Fair" and not acceptable.
C13_ReferencePoint ==
    ( /\ lastOp.op = "get_test_data"
      /\ lastOp.measured
      /\ lastOp.rpm_numeric.num = 1400
      /\ AsHundredths(lastOp.value_numeric) = 110 )
    => (lastOp.classification = "Fair" /\ ~lastOp.vibration_ok)

\* the label of the first base, in ascending order, whose threshold
\* base * sqrt(rpm / 1000) is not exceeded by the value
ChartBand(r, v) ==
    LET hits == { k \in 1..Len(Bands) : v * v * 1000 <= Bands[k][1] * Bands[k][1] * r }
    IN  IF hits = {} THEN Len(Bands) + 1
        ELSE CHOOSE a \in hits : \A b \in hits : a <= b

\* C14: for rpm > 0 and a value >= 0 the classifier gives the label of the
\* first base of 0.28, 0.45, 0.71, 1.12, 1.8, 2.8, 4.5, 7.1 with
\* value <= base * sqrt(rpm / 1000), a value equal to a threshold falling in
\* the lower band, and "Extremely Rough" when there is none; acceptable is
\* true exactly for the first four labels.
C14_FirstBandNotExceeded ==
    (lastOp.op = "get_test_data" /\ lastOp.measured) =>
        LET k == ChartBand(lastOp.rpm_numeric.num, AsHundredths(lastOp.value_numeric))
        IN  /\ lastOp.classification =
                  (IF k <= Len(Bands) THEN Bands[k][2] ELSE "Extremely Rough")
            /\ lastOp.vibration_ok = (k <= 4)

\* ------------------------------------------------------------- the report
\* generate_report appends blocks to a python-docx Document.  The document is
\* modelled by the sequence of its blocks in the order they are appended:
\* headings, paragraphs and tables.  The text of a paragraph is kept as the
\* sequence of the items that " ".join (or add_run(" " + ...)) put into it.
\* A picture is a paragraph of its own (Document.add_picture), so are its
\* caption and the empty paragraph after it.  `d` is the document together
\* with figure_counter.

\* the content of a file that is not an image: add_picture raises on it
Unreadable == "bad"

\* a file on disk is removed, or overwritten by something that is no image,
\* after its path was attached to the record
damage_file(img_path, removed) ==
    /\ img_path \in DOMAIN files
    /\ removed \/ files[img_path] # Unreadable
    /\ files' = IF removed
                THEN [p \in DOMAIN files \ {img_path} |-> files[p]]
                ELSE [files EXCEPT ![img_path] = Unreadable]
    /\ lastOp' = [op |-> "damage_file"]
    /\ UNCHANGED << recVars, stateFile, userFile, snapshot, autoVars >>

\* the image widget of an inline custom issue of a motor section
\* (toggle_img_btn / img_widget of add_custom_pattern)
upload_custom_images(i, title, k, img_path) ==
    /\ IsSection(i, title, {"component"})
    /\ title \in InlineCustomTitles \cap PerObsImageTitles
    /\ StatusNotOK \in tabs[i].secs[title].checked
    /\ k \in 1..Len(tabs[i].secs[title].custom)
    /\ img_path \in DOMAIN files
    /\ Len(tabs[i].secs[title].custom[k].images) < MaxImages
    /\ ~InSeq(img_path, tabs[i].secs[title].custom[k].images)
    /\ Edit(i, title,
            [tabs[i].secs[title] EXCEPT
                !.custom[k].images = AddImageTo(@, img_path, files)],
            [op |-> "edit"])

\* doc.add_heading(text, level)
add_heading(d, text) ==
    [d EXCEPT !.doc = Append(@, [t |-> "h", text |-> text])]

\* doc.add_paragraph(" ".join(items))
add_paragraph(d, items) ==
    [d EXCEPT !.doc = Append(@, [t |-> "p", role |-> "text", text |-> items])]

\* a counter that moves on for every image path, drawn or not
FigureCounterEveryPath(figure_counter, drawn) == figure_counter + 1

\* figure_counter += 1, the last but one statement of the if branch
FigureCounter(figure_counter, drawn) ==
    IF drawn THEN figure_counter + 1 ELSE figure_counter

\* One of the "for img_path in ...: try: if os.path.exists(img_path): ..."
\* loops.  label is the caption text, << >> for os.path.basename(img_path);
\* else_branch tells whether the loop has the else branch that writes
\* "Error: Image file not found"; the except branch writes "Error loading
\* image".
RECURSIVE add_pictures(_, _, _, _, _)
add_pictures(d, image_paths, label, fs, else_branch) ==
    IF image_paths = << >>
    THEN d
    ELSE LET img_path == Head(image_paths)
             exists   == img_path \in DOMAIN fs
             drawn    == exists /\ fs[img_path] # Unreadable
             out ==
                IF drawn
                THEN << [t |-> "p", role |-> "picture", text |-> << >>,
                         path |-> img_path],
                        [t |-> "p", role |-> "caption", text |-> << >>,
                         n |-> d.figure_counter,
                         label |-> IF label = << >> THEN img_path.name ELSE label,
                         path |-> img_path],
                        [t |-> "p", role |-> "text", text |-> << >>] >>
                ELSE IF exists
                THEN << [t |-> "p", role |-> "error", text |-> << >>,
                         path |-> img_path] >>
                ELSE IF else_branch
                THEN << [t |-> "p", role |-> "not_found", text |-> << >>,
                         path |-> img_path] >>
                ELSE << >>
         IN  add_pictures([doc |-> d.doc \o out,
                           figure_counter |-> FigureCounter(d.figure_counter, drawn)],
                          Tail(image_paths), label, fs, else_branch)

\* the loop that builds grouped_obs: an item with images closes the current
\* group and stands alone, an item without images joins the current group
RECURSIVE GroupItems(_, _, _)
GroupItems(items, grouped_obs, current_group) ==
    LET flushed == IF current_group # << >>
                   THEN Append(grouped_obs, [kind |-> "text", texts |-> current_group])
                   ELSE grouped_obs
    IN  IF items = << >>
        THEN flushed
        ELSE IF Head(items).images # << >>
        THEN GroupItems(Tail(items),
                        Append(flushed, [kind |-> "image",
                                         texts |-> << Head(items).text >>,
                                         images |-> Head(items).images]),
                        << >>)
        ELSE GroupItems(Tail(items), grouped_obs,
                        Append(current_group, Head(items).text))

\* "for item in grouped_obs": a paragraph per group, the figures of an
\* image item after its paragraph, captioned with the item's text
RECURSIVE EmitGroups(_, _, _, _)
EmitGroups(d, grouped_obs, fs, else_branch) ==
    IF grouped_obs = << >>
    THEN d
    ELSE LET item == Head(grouped_obs)
             d1   == add_paragraph(d, item.texts)
             d2   == IF item.kind = "text" THEN d1
                     ELSE add_pictures(d1, item.images, item.texts, fs, else_branch)
         IN  EmitGroups(d2, Tail(grouped_obs), fs, else_branch)

\* the selected observations of a pattern as items of the grouping
ObservationItems(title, sec, pattern) ==
    LET selected_obs == get_selected_observations(title, sec, pattern) IN
    [k \in 1..Len(selected_obs) |->
        [text |-> selected_obs[k],
         images |-> get_observation_images(title, sec, pattern, selected_obs[k])]]

\* the custom entries that carry a text, as items of the grouping
CustomItems(title, sec) ==
    LET custom_patterns == SelectSeq2(get_custom_patterns(title, sec),
                                      LAMBDA c : c.form = "inline")
    IN  [k \in 1..Len(custom_patterns) |->
            [text |-> custom_patterns[k].text, images |-> custom_patterns[k].images]]

\* the figure of BEARING_REFERENCE_IMAGES[pattern], drawn when the file is
\* in _assets: picture, caption "Example - pattern", the source line and an
\* empty paragraph
ReferenceFigure(d, title, pattern, assets) ==
    IF title = "Drive End Bearing" /\ pattern = Pitting /\ assets
    THEN [doc |-> d.doc \o
                  << [t |-> "p", role |-> "picture", text |-> << >>,
                      path |-> Path("_assets", << "spalling" >>)],
                     [t |-> "p", role |-> "caption", text |-> << >>,
                      n |-> d.figure_counter, label |-> << "Example", pattern >>,
                      path |-> Path("_assets", << "spalling" >>)],
                     [t |-> "p", role |-> "text",
                      text |-> << "(Source: SKF, Bearing Damage and Failure Analysis.)" >>],
                     [t |-> "p", role |-> "text", text |-> << >>] >>,
          figure_counter |-> d.figure_counter + 1]
    ELSE d

\* "notes = section.get_notes(); if notes: ..."
AdditionalNotes(d, notes) ==
    IF notes # ""
    THEN add_paragraph(add_heading(d, "Additional Notes:"), << notes >>)
    ELSE d

\* "images = section.get_images(); if images: ..."
GeneralSectionImages(d, images, fs, else_branch) ==
    IF images # << >>
    THEN add_pictures(add_heading(d, "General Section Images:"), images, << >>,
                      fs, else_branch)
    ELSE d

\* the sentence and the images of a section whose only selected pattern is
\* "Status: OK"
StatusOkOnly(d, sec, fs) ==
    add_pictures(add_paragraph(d, << TerminalSentence >>),
                 get_pattern_images(sec, StatusOK), << >>, fs, FALSE)

MotorFallback == "Wear pattern observed (no specific details selected)."

\* the images of a pattern, captioned with the pattern, and the reference
\* figure of the pattern
MotorPatternFigures(d, title, sec, pattern, fs, assets) ==
    ReferenceFigure(add_pictures(d, get_pattern_images(sec, pattern),
                                 << pattern >>, fs, TRUE),
                    title, pattern, assets)

\* "if not section.get_custom_patterns(): doc.add_paragraph('Wear pattern
\* observed (no specific details selected).')"
MotorNoDetails(d, title, sec) ==
    IF get_custom_patterns(title, sec) = << >>
    THEN add_paragraph(d, << MotorFallback >>)
    ELSE d

\* "if selected_obs: ... else: ..." of a pattern of a motor section
MotorPatternBody(d, title, sec, pattern, selected_obs, fs, assets) ==
    IF selected_obs # << >>
    THEN IF title \in PerObsImageTitles /\ pattern = StatusNotOK
         THEN EmitGroups(d, GroupItems(ObservationItems(title, sec, pattern)
                                       \o CustomItems(title, sec),
                                       << >>, << >>),
                         fs, TRUE)
         ELSE MotorPatternFigures(add_paragraph(d, selected_obs),
                                  title, sec, pattern, fs, assets)
    ELSE IF title \notin PerObsImageTitles
         THEN MotorPatternFigures(MotorNoDetails(d, title, sec),
                                  title, sec, pattern, fs, assets)
         ELSE MotorNoDetails(d, title, sec)

\* generate_report, MotorTab branch, the body of "for pattern in
\* selected_patterns": "Status: NOT OK" of a special section has no heading,
\* and its pattern images follow with the file name as caption
MotorPattern(d, title, sec, pattern, fs, assets) ==
    LET not_ok == title \in PerObsImageTitles /\ pattern = StatusNotOK IN
    IF title \in PerObsImageTitles /\ pattern = StatusOK
    THEN d
    ELSE IF pattern = NoIssues
    THEN add_paragraph(d, << TerminalSentence >>)
    ELSE add_pictures(
            MotorPatternBody(IF not_ok THEN d ELSE add_heading(d, pattern),
                             title, sec, pattern,
                             get_selected_observations(title, sec, pattern),
                             fs, assets),
            IF not_ok THEN get_pattern_images(sec, pattern) ELSE << >>,
            << >>, fs, TRUE)

RECURSIVE MotorPatterns(_, _, _, _, _, _)
MotorPatterns(d, title, sec, pats, fs, assets) ==
    IF pats = << >>
    THEN d
    ELSE MotorPatterns(MotorPattern(d, title, sec, Head(pats), fs, assets),
                       title, sec, Tail(pats), fs, assets)

\* generate_report, MotorTab branch, "for custom in custom_patterns": an
\* inline issue is a paragraph, a named pattern a heading, its observations
\* and its images
RECURSIVE MotorCustoms(_, _, _)
MotorCustoms(d, custom_patterns, fs) ==
    IF custom_patterns = << >>
    THEN d
    ELSE LET custom == Head(custom_patterns) IN
         MotorCustoms(
            IF custom.form = "inline"
            THEN add_paragraph(d, << custom.text >>)
            ELSE add_pictures(
                    add_paragraph(add_heading(d, custom.name), custom.observations),
                    custom.images, << >>, fs, TRUE),
            Tail(custom_patterns), fs)

\* "if selected_patterns: doc.add_heading('Observed Wear Patterns:') ..."
MotorSectionPatterns(d, title, sec, selected_patterns, fs, assets) ==
    IF selected_patterns # << >>
    THEN MotorPatterns(add_heading(d, "Observed Wear Patterns:"), title, sec,
                       selected_patterns, fs, assets)
    ELSE d

\* "if not (is_motor_special and selected_patterns): custom_patterns = ..."
MotorSectionCustoms(d, title, selected_patterns, custom_patterns, fs) ==
    IF ~(title \in MotorSpecialTitles /\ selected_patterns # << >>)
       /\ custom_patterns # << >>
    THEN MotorCustoms(IF selected_patterns = << >>
                      THEN add_heading(d, "Observed Wear Patterns:")
                      ELSE d,
                      custom_patterns, fs)
    ELSE d

\* "if not selected_patterns and not section.get_custom_patterns(): ..."
MotorSectionEmpty(d, title, selected_patterns, custom_patterns) ==
    IF selected_patterns = << >> /\ custom_patterns = << >>
    THEN IF title = "Drive End Bearing"
         THEN add_paragraph(d, << title, "Not tested." >>)
         ELSE add_paragraph(d, << "No significant wear patterns observed." >>)
    ELSE d

\* generate_report, MotorTab branch, the body of "for section_data in
\* sections" for a component section
MotorSection(d, title, sec, fs, assets) ==
    IF title \in PerObsImageTitles
       /\ get_selected_patterns(title, sec) = << StatusOK >>
    THEN \* the branch ends with "continue": no notes, no general images
         StatusOkOnly(add_heading(d, title), sec, fs)
    ELSE GeneralSectionImages(
            AdditionalNotes(
                MotorSectionEmpty(
                    MotorSectionCustoms(
                        MotorSectionPatterns(add_heading(d, title), title, sec,
                                             get_selected_patterns(title, sec),
                                             fs, assets),
                        title, get_selected_patterns(title, sec),
                        get_custom_patterns(title, sec), fs),
                    title, get_selected_patterns(title, sec),
                    get_custom_patterns(title, sec)),
                sec.notes),
            sec.images, fs, TRUE)

\* the two accumulators of a summary cell: status_items takes the sentences
\* of "No issues detected" / "Status: OK", section_items the selected
\* (the name of the pattern when it has none), section_items the selected
\* observations of every other selected pattern and then the texts of the
\* custom entries that have a 'text' key
SummaryItems(title, sec) ==
    LET selected_patterns == get_selected_patterns(title, sec)
        customs == CustomItems(title, sec)
    IN  [section_items |->
            Flatten([k \in 1..Len(selected_patterns) |->
                IF selected_patterns[k] \notin {NoIssues, StatusOK}
                THEN get_selected_observations(title, sec, selected_patterns[k])
                ELSE << >>])
            \o [k \in 1..Len(customs) |-> customs[k].text],
         status_items |->
            Flatten([k \in 1..Len(selected_patterns) |->
                IF selected_patterns[k] \notin {NoIssues, StatusOK}
                THEN << >>
                ELSE IF get_selected_observations(title, sec, selected_patterns[k])
                        # << >>
                THEN get_selected_observations(title, sec, selected_patterns[k])
                ELSE << selected_patterns[k] >>])]

\* a count taken over both accumulators
CountAll(section_items, status_items) == Len(section_items) + Len(status_items)

\* count = len(items)
CountIssues(section_items, status_items) == Len(section_items)

\* one paragraph of a summary cell: "label (N Issue(s)): items", or
\* "label: status", or the text for a section with nothing selected
SummaryLine(label, items, nothing) ==
    IF items.section_items # << >>
    THEN [label |-> label, counted |-> TRUE,
          count |-> CountIssues(items.section_items, items.status_items),
          text |-> items.section_items]
    ELSE IF items.status_items # << >>
    THEN [label |-> label, counted |-> FALSE, count |-> 0,
          text |-> items.status_items]
    ELSE [label |-> label, counted |-> FALSE, count |-> 0, text |-> << nothing >>]

\* doc.add_table(...) with the paragraphs of its body cells
add_table(d, name, lines) ==
    [d EXCEPT !.doc = Append(@, [t |-> "table", name |-> name, lines |-> lines])]

\* generate_report, MotorTab branch: 'Motor Summary', the cells 'Visual
\* Inspection' (the special sections) and 'Internal Inspection' (the
\* bearings), then an empty paragraph
MotorSummary(d, tab) ==
    add_paragraph(
        add_table(add_heading(d, "Motor Summary"), "Motor Summary",
           << SummaryLine("Motor Housing",
                          SummaryItems("Motor Housing", tab.secs["Motor Housing"]),
                          "No data recorded"),
              SummaryLine("Drive End",
                          SummaryItems("Drive End Bearing",
                                       tab.secs["Drive End Bearing"]),
                          "No data recorded") >>),
        << >>)

\* doc.add_page_break(): a paragraph that holds the break
add_page_break(d) ==
    [d EXCEPT !.doc = Append(@, [t |-> "p", role |-> "page_break", text |-> << >>])]

\* "for para in reversed(doc.paragraphs)": the last paragraph that is not a
\* heading with text takes the custom texts as one more run; tables are not
\* in doc.paragraphs
AppendToLastParagraph(d, custom_texts) ==
    LET paras == { j \in 1..Len(d.doc) : d.doc[j].t = "p" } IN
    IF paras = { }
    THEN add_paragraph(d, custom_texts)
    ELSE [d EXCEPT !.doc[CHOOSE j \in paras : \A k \in paras : k <= j].text =
                        @ \o custom_texts]

SpecificsMissing == "revealed issues but specifics were not provided."

\* the texts of the custom entries that have a 'text' key
CustomTextList(title, sec) ==
    [k \in 1..Len(CustomItems(title, sec)) |-> CustomItems(title, sec)[k].text]

\* the issues list of an electrical section followed by its custom texts
AllIssues(sec) ==
    CheckedIssues(sec)
    \o [k \in 1..Len(ElectricalCustoms(sec)) |-> ElectricalCustoms(sec)[k].text]

\* "if test_data['ok']: ... elif test_data['not_ok']: ... else: ..." of the
\* electrical section of a compressor
CompressorElectricalStatus(d, sec, fs) ==
    IF sec.ok
    THEN add_pictures(
            add_paragraph(d,
               << "Electrical testing completed with no issues detected." >>),
            sec.ok_images, << >>, fs, FALSE)
    ELSE IF sec.not_ok
    THEN add_pictures(
            IF AllIssues(sec) # << >>
            THEN add_paragraph(add_heading(d, "Issues Detected:"), AllIssues(sec))
            ELSE add_paragraph(d, << "Electrical testing", SpecificsMissing >>),
            sec.not_ok_images, << >>, fs, FALSE)
    ELSE add_paragraph(d, << "Electrical testing not performed." >>)

\* "if test_data.get('resistance'): ..."
ElectricalResistance(d, label, resistance) ==
    IF Strip(resistance) # ""
    THEN add_paragraph(d, << label, Strip(resistance) >>)
    ELSE d

\* generate_report, CompressorTab branch, 'compressor_electrical'
CompressorElectrical(d, sec, fs) ==
    AdditionalNotes(
        add_pictures(
            ElectricalResistance(
                CompressorElectricalStatus(add_heading(d, "Electrical Testing"),
                                           sec, fs),
                "Resistance measured:", sec.resistance),
            sec.general_images, << >>, fs, FALSE),
        sec.notes)

CompressorSpecialTitles ==
    {"Oil Evaluation", "Scroll Plate Inspection", "Visual Inspection"}

ValveSectionTitles ==
    {"External Inspection", "Internal Cylinder Inspection A",
     "Internal Cylinder Inspection B"}

\* "if selected_obs: ... else: ..." of a pattern of a compressor section
CompressorPatternBody(d, title, sec, pattern, selected_obs, fs) ==
    LET not_ok == title \in CompressorSpecialTitles /\ pattern = StatusNotOK IN
    IF selected_obs # << >>
    THEN IF not_ok
         THEN EmitGroups(d, GroupItems(ObservationItems(title, sec, pattern),
                                       << >>, << >>),
                         fs, FALSE)
         ELSE add_paragraph(d, selected_obs)
    ELSE IF not_ok /\ CustomTextList(title, sec) = << >>
    THEN IF title \in {"Oil Evaluation", "Scroll Plate Inspection"}
            \/ title \in ValveSectionTitles
         THEN add_paragraph(d, << title, SpecificsMissing >>)
         ELSE add_paragraph(d, << "Visual inspection", SpecificsMissing >>)
    ELSE d

\* generate_report, CompressorTab branch, the body of "for pattern in
\* selected_patterns"
CompressorPattern(d, title, sec, pattern, fs) ==
    LET not_ok == title \in CompressorSpecialTitles /\ pattern = StatusNotOK IN
    IF title \in CompressorSpecialTitles /\ pattern = StatusOK
    THEN d
    ELSE add_pictures(
            CompressorPatternBody(IF not_ok THEN d ELSE add_heading(d, pattern),
                                  title, sec, pattern,
                                  get_selected_observations(title, sec, pattern),
                                  fs),
            IF not_ok THEN get_pattern_images(sec, pattern) ELSE << >>,
            << >>, fs, TRUE)

RECURSIVE CompressorPatterns(_, _, _, _, _)
CompressorPatterns(d, title, sec, pats, fs) ==
    IF pats = << >>
    THEN d
    ELSE CompressorPatterns(CompressorPattern(d, title, sec, Head(pats), fs),
                            title, sec, Tail(pats), fs)

\* generate_report, CompressorTab branch, "for custom in custom_patterns"
\* of a section with no selected pattern
RECURSIVE CompressorCustoms(_, _, _)
CompressorCustoms(d, custom_patterns, fs) ==
    IF custom_patterns = << >>
    THEN d
    ELSE CompressorCustoms(
            add_pictures(add_paragraph(d, << Head(custom_patterns).text >>),
                         Head(custom_patterns).images, << >>, fs, FALSE),
            Tail(custom_patterns), fs)

\* "if selected_patterns: doc.add_heading('Observed Issues:') ..."
CompressorSectionPatterns(d, title, sec, selected_patterns, fs) ==
    IF selected_patterns # << >>
    THEN CompressorPatterns(add_heading(d, "Observed Issues:"), title, sec,
                            selected_patterns, fs)
    ELSE d

\* "if not (is_motor_section and selected_patterns): custom_patterns = ..."
CompressorSectionCustoms(d, title, sec, selected_patterns, custom_patterns, fs) ==
    IF (title \in PerObsImageTitles /\ selected_patterns # << >>)
       \/ custom_patterns = << >>
    THEN d
    ELSE IF title \in CompressorSpecialTitles /\ selected_patterns # << >>
    THEN IF CustomTextList(title, sec) # << >>
         THEN AppendToLastParagraph(d, CustomTextList(title, sec))
         ELSE d
    ELSE IF selected_patterns = << >>
    THEN CompressorCustoms(add_heading(d, "Observed Issues:"), custom_patterns, fs)
    ELSE d

\* "if not selected_patterns and not section.get_custom_patterns(): ..."
CompressorSectionEmpty(d, title, selected_patterns, custom_patterns) ==
    IF selected_patterns = << >> /\ custom_patterns = << >>
    THEN IF title \in {"Oil Evaluation", "Scroll Plate Inspection"}
            \/ title \in ValveSectionTitles
         THEN add_paragraph(d, << title, "not performed." >>)
         ELSE add_paragraph(d, << "No significant issues observed." >>)
    ELSE d

\* generate_report, CompressorTab branch, the body of "for section_data in
\* sections" for a component section
CompressorSection(d, title, sec, fs) ==
    IF title \in CompressorSpecialTitles
       /\ get_selected_patterns(title, sec) = << StatusOK >>
    THEN StatusOkOnly(add_heading(d, title), sec, fs)
    ELSE GeneralSectionImages(
            AdditionalNotes(
                CompressorSectionEmpty(
                    CompressorSectionCustoms(
                        CompressorSectionPatterns(add_heading(d, title), title, sec,
                                                  get_selected_patterns(title, sec),
                                                  fs),
                        title, sec, get_selected_patterns(title, sec),
                        get_custom_patterns(title, sec), fs),
                    title, get_selected_patterns(title, sec),
                    get_custom_patterns(title, sec)),
                sec.notes),
            sec.images, fs, FALSE)

\* a line of the cell of an electrical section: the paragraphs for the
\* resistance and the notes are lost again when nothing was recorded and
\* the cell text is overwritten
ElectricalLine(label, text, issues_list, more) ==
    IF issues_list # << >>
    THEN [label |-> label, counted |-> TRUE, count |-> Len(issues_list),
          text |-> issues_list, more |-> more]
    ELSE [label |-> label, counted |-> FALSE, count |-> 0, text |-> << text >>,
          more |-> IF text = "No data recorded." THEN << >> ELSE more]

\* the items of a summary cell that also takes the notes of the section
WithNotes(items, notes) ==
    [items EXCEPT !.section_items = @ \o (IF notes # "" THEN << notes >> ELSE << >>)]

\* the paragraph of an electrical cell for the resistance
ResistanceLine(resistance) ==
    IF Strip(resistance) # ""
    THEN << << "Resistance:", Strip(resistance) >> >>
    ELSE << >>

\* the paragraph of an electrical cell for the notes
NotesLine(notes) == IF notes # "" THEN << << notes >> >> ELSE << >>

\* generate_report, CompressorTab branch: 'Compressor Summary', the cells
\* 'Electrical Testing' and 'Oil Evaluation'; the notes of the oil section
\* are appended to oil_items
CompressorSummary(d, tab) ==
    add_paragraph(
        add_table(add_heading(d, "Compressor Summary"), "Compressor Summary",
           << ElectricalLine("Electrical Testing",
                 IF tab.secs["Electrical Testing"].ok
                 THEN "No issues detected." ELSE "No data recorded.",
                 IF tab.secs["Electrical Testing"].ok
                 THEN << >> ELSE AllIssues(tab.secs["Electrical Testing"]),
                 ResistanceLine(tab.secs["Electrical Testing"].resistance)
                 \o NotesLine(tab.secs["Electrical Testing"].notes)),
              SummaryLine("Oil Evaluation",
                 WithNotes(SummaryItems("Oil Evaluation", tab.secs["Oil Evaluation"]),
                           tab.secs["Oil Evaluation"].notes),
                 "No issues detected.") >>),
        << >>)

\* doc.add_paragraph(text, style='List Bullet') for each custom text
RECURSIVE Bullets(_, _)
Bullets(d, texts) ==
    IF texts = << >>
    THEN d
    ELSE Bullets([d EXCEPT !.doc = Append(@, [t |-> "p", role |-> "bullet",
                                             text |-> << Head(texts) >>])],
                 Tail(texts))

\* the custom texts of the coil's section: appended to the last paragraph
\* when observations were written, listed as bullets otherwise
CoilCustoms(d, title, sec, selected_obs, custom_patterns) ==
    IF custom_patterns # << >> /\ selected_obs # << >>
    THEN IF CustomTextList(title, sec) # << >>
         THEN AppendToLastParagraph(d, CustomTextList(title, sec))
         ELSE d
    ELSE IF custom_patterns # << >>
    THEN Bullets(add_heading(d, "Observed Issues:"), CustomTextList(title, sec))
    ELSE d

\* "if 'Status: NOT OK' in selected_patterns: ..." of the coil's section
CoilNotOk(d, title, sec, selected_obs, fs) ==
    add_pictures(
        CoilCustoms(IF selected_obs # << >> THEN add_paragraph(d, selected_obs) ELSE d,
                    title, sec, selected_obs, get_custom_patterns(title, sec)),
        get_pattern_images(sec, StatusNotOK), << >>, fs, FALSE)

\* "if 'Status: OK' in ...: ...; if 'Status: NOT OK' in ...: ...;
\* if not selected_patterns: ..." of the coil's section
CoilSelected(d, title, sec, selected_patterns, fs) ==
    IF selected_patterns = << >>
    THEN add_paragraph(d, << "Visual inspection not performed." >>)
    ELSE IF InSeq(StatusNotOK, selected_patterns)
    THEN CoilNotOk(IF InSeq(StatusOK, selected_patterns)
                   THEN add_paragraph(d, << TerminalSentence >>)
                   ELSE d,
                   title, sec, get_selected_observations(title, sec, StatusNotOK), fs)
    ELSE IF InSeq(StatusOK, selected_patterns)
    THEN add_paragraph(d, << TerminalSentence >>)
    ELSE d

\* generate_report, CoilTab branch, the component section ('Visual
\* Inspection'): the observations of "Status: NOT OK" in one paragraph, the
\* custom texts appended to the last paragraph or listed as bullets
CoilSection(d, title, sec, fs) ==
    GeneralSectionImages(
        AdditionalNotes(
            CoilSelected(add_heading(d, title), title, sec,
                         get_selected_patterns(title, sec), fs),
            sec.notes),
        sec.images, fs, FALSE)

\* generate_report, CoilTab branch: 'Coil Summary', the cell 'Visual
\* Inspection'; the notes of the section are appended to visual_items
CoilSummary(d, tab) ==
    add_paragraph(
        add_table(add_heading(d, "Coil Summary"), "Coil Summary",
           << SummaryLine("Visual Inspection",
                 WithNotes(SummaryItems("Visual Inspection",
                                        tab.secs["Visual Inspection"]),
                           tab.secs["Visual Inspection"].notes),
                 "No issues detected.") >>),
        << >>)

\* the checked issues of the valve's electrical section with their images,
\* followed by the custom entries, as items of the grouping
ValveElectricalItems(sec) ==
    [k \in 1..Len(CheckedIssues(sec)) |->
        [text |-> CheckedIssues(sec)[k],
         images |-> sec.issueImages[CheckedIssues(sec)[k]]]]
    \o [k \in 1..Len(ElectricalCustoms(sec)) |->
        [text |-> ElectricalCustoms(sec)[k].text,
         images |-> ElectricalCustoms(sec)[k].images]]

\* "if not issues and not custom_issues: ..."
ValveElectricalMissing(d, items) ==
    IF items = << >>
    THEN add_paragraph(d, << "Electrical inspection", SpecificsMissing >>)
    ELSE d

\* "if test_data['ok']: ... elif test_data['not_ok']: ... else: ..." of the
\* electrical section of a valve
ValveElectricalStatus(d, sec, fs) ==
    IF sec.ok
    THEN add_pictures(
            add_paragraph(d,
               << "Solenoid coil electrical inspection completed with no issues detected." >>),
            sec.ok_images, << >>, fs, FALSE)
    ELSE IF sec.not_ok
    THEN ValveElectricalMissing(
            add_pictures(
                EmitGroups(d, GroupItems(ValveElectricalItems(sec), << >>, << >>),
                           fs, FALSE),
                sec.not_ok_images, << >>, fs, FALSE),
            ValveElectricalItems(sec))
    ELSE add_paragraph(d, << "Electrical inspection not performed." >>)

\* generate_report, ValveTab branch, 'valve_electrical': the checked issues
\* and the custom texts go through the grouping, an issue with images
\* standing alone
ValveElectrical(d, sec, fs) ==
    add_pictures(
        AdditionalNotes(
            ElectricalResistance(
                ValveElectricalStatus(add_heading(d, "Electrical Inspection"), sec, fs),
                "Solenoid Coil Resistance:", sec.resistance),
            sec.notes),
        sec.general_images, << >>, fs, FALSE)

\* "if custom_patterns and selected_obs: custom_texts = [...]" of a pattern
\* of a valve section
ValvePatternCustoms(d, title, sec) ==
    IF get_custom_patterns(title, sec) # << >>
       /\ CustomTextList(title, sec) # << >>
    THEN AppendToLastParagraph(d, CustomTextList(title, sec))
    ELSE d

\* "if selected_obs: ... else: ..." of a pattern of a valve section; the
\* inline grouping loop flushes the group before an observation with images
\* and after the last one
ValvePatternBody(d, title, sec, pattern, selected_obs, fs) ==
    IF selected_obs # << >>
    THEN ValvePatternCustoms(
            EmitGroups(IF pattern = StatusNotOK
                       THEN add_heading(d, "Issues Detected:")
                       ELSE d,
                       GroupItems(ObservationItems(title, sec, pattern), << >>, << >>),
                       fs, FALSE),
            title, sec)
    ELSE IF title \in ValveSectionTitles /\ pattern = StatusNotOK
            /\ CustomTextList(title, sec) = << >>
    THEN add_paragraph(d, << title, SpecificsMissing >>)
    ELSE d

\* generate_report, ValveTab branch, the body of "for pattern in
\* selected_patterns"
ValvePattern(d, title, sec, pattern, fs) ==
    add_pictures(
        ValvePatternBody(d, title, sec, pattern,
                         get_selected_observations(title, sec, pattern), fs),
        IF pattern = StatusNotOK THEN get_pattern_images(sec, pattern) ELSE << >>,
        << >>, fs, FALSE)

RECURSIVE ValvePatterns(_, _, _, _, _)
ValvePatterns(d, title, sec, pats, fs) ==
    IF pats = << >>
    THEN d
    ELSE ValvePatterns(ValvePattern(d, title, sec, Head(pats), fs),
                       title, sec, Tail(pats), fs)

\* "if not selected_patterns: ... elif only Status: OK: ... else: for
\* pattern in selected_patterns" of a valve section
ValveSelected(d, title, sec, selected_patterns, fs) ==
    IF selected_patterns = << >>
    THEN add_paragraph(d, << title, "not performed." >>)
    ELSE IF title \in ValveSectionTitles /\ selected_patterns = << StatusOK >>
    THEN StatusOkOnly(d, sec, fs)
    ELSE ValvePatterns(d, title, sec, selected_patterns, fs)

\* generate_report, ValveTab branch, the else branch of "for section_data
\* in sections" (a component section)
ValveSection(d, title, sec, fs) ==
    GeneralSectionImages(
        AdditionalNotes(
            ValveSelected(add_heading(d, title), title, sec,
                          get_selected_patterns(title, sec), fs),
            sec.notes),
        sec.images, fs, FALSE)

\* generate_report, ValveTab branch: 'Valve Summary', the cells 'External
\* Inspection' (the notes of the section are appended to external_items)
\* and 'Electrical and Mechanical Inspection'
ValveSummary(d, tab) ==
    add_paragraph(
        add_table(add_heading(d, "Valve Summary"), "Valve Summary",
           << SummaryLine("External Inspection",
                 WithNotes(SummaryItems("External Inspection",
                                        tab.secs["External Inspection"]),
                           tab.secs["External Inspection"].notes),
                 "No issues detected."),
              ElectricalLine("Electrical",
                 IF tab.secs["Electrical Inspection"].ok THEN "OK"
                 ELSE IF tab.secs["Electrical Inspection"].not_ok
                 THEN "Issues detected" ELSE "No data recorded.",
                 IF ~tab.secs["Electrical Inspection"].ok
                    /\ tab.secs["Electrical Inspection"].not_ok
                 THEN AllIssues(tab.secs["Electrical Inspection"]) ELSE << >>,
                 NotesLine(tab.secs["Electrical Inspection"].notes)
                 \o ResistanceLine(tab.secs["Electrical Inspection"].resistance)) >>),
        << >>)

\* generate_report, one section of the tab of the given kind
SectionReport(d, kind, title, sec, fs, assets) ==
    CASE kind = "motor" -> MotorSection(d, title, sec, fs, assets)
      [] kind = "compressor" ->
            IF SectionType(kind, title) = "compressor_electrical"
            THEN CompressorElectrical(d, sec, fs)
            ELSE CompressorSection(d, title, sec, fs)
      [] kind = "coil" -> CoilSection(d, title, sec, fs)
      [] kind = "valve" ->
            IF SectionType(kind, title) = "valve_electrical"
            THEN ValveElectrical(d, sec, fs)
            ELSE ValveSection(d, title, sec, fs)

\* "for section_data in sections", from section k of get_all_sections on
RECURSIVE SectionReports(_, _, _, _, _)
SectionReports(d, tab, k, fs, assets) ==
    IF k > Len(AllSections(tab.kind))
    THEN d
    ELSE SectionReports(
            SectionReport(d, tab.kind, AllSections(tab.kind)[k][1],
                          tab.secs[AllSections(tab.kind)[k][1]], fs, assets),
            tab, k + 1, fs, assets)

\* generate_report, the summary table that ends the part of a tab
SummaryReport(d, tab) ==
    CASE tab.kind = "motor"      -> MotorSummary(d, tab)
      [] tab.kind = "compressor" -> CompressorSummary(d, tab)
      [] tab.kind = "coil"       -> CoilSummary(d, tab)
      [] tab.kind = "valve"      -> ValveSummary(d, tab)

\* generate_report, the body of "for tab_idx in range(...)" for the tab at
\* index i: page break, the heading with the ordinal of the tab among the
\* tabs of its kind, the sections, the summary
TabReport(d, ts, i, fs, assets) ==
    LET Title(x) == [x EXCEPT !.doc = Append(@, [t |-> "h", text |-> ts[i].kind,
                                                 number |-> CountKind(ts, ts[i].kind, i)])]
    IN  SummaryReport(SectionReports(Title(add_page_break(d)), ts[i], 1, fs, assets),
                      ts[i])

RECURSIVE TabReports(_, _, _, _, _)
TabReports(d, ts, i, fs, assets) ==
    IF i > Len(ts)
    THEN d
    ELSE TabReports(TabReport(d, ts, i, fs, assets), ts, i + 1, fs, assets)

\* generate_report from "doc = Document()" to the end of the loop over the
\* tabs: the title headings, the header table, an empty paragraph,
\* figure_counter = 1, then the tabs in tab order
BuildReport(ts, id, fs, assets) ==
    TabReports(
        add_paragraph(
            add_table(
                add_heading(add_heading(add_heading(
                    [doc |-> << >>, figure_counter |-> 1],
                    "Quality Laboratory"), "Inspection Report"), "Inspection Details"),
                "header", << [label |-> "RMA:", text |-> << id >>] >>),
            << >>),
        ts, 1, fs, assets)

\* the save at the end of generate_report when perform_autosave has run at
\* its start: b1 is what the first save left, the second copies the images
\* once more
SaveAgain(ts, id, b1, save_path) ==
    LET Both(b2) == [b2 EXCEPT !.overflow = @ \/ b1.overflow]
    IN  Both(BuildSave(ts, id, b1.fs, save_path))

\* what generate_report leaves to look at: the document, the number of
\* figures drawn and the files the document was built from
ReportDone(d, fs1) ==
    [op |-> "generate_report", ok |-> TRUE, why |-> "",
     doc |-> d.doc, figures |-> d.figure_counter - 1, fs |-> fs1]

\* the files a save of the report writes: report_state.json in the session
\* folder and its copy at the save path
ReportStore(b) ==
    /\ ~b.overflow
    /\ files' = b.fs
    /\ stateFile' = [stateFile EXCEPT ![last_save_path] = Saved(b.data)]
    /\ userFile' = [userFile EXCEPT ![last_save_path] = Saved(b.data)]
    /\ snapshot' = [snapshot EXCEPT ![last_save_path] = tabs]

\* generate_report past the identifier check: the save before the document
\* (perform_autosave), the document, the save after it; b1 is what one
\* save of the record does
ReportSteps(before, after, b1, assets) ==
    /\ IF before /\ after
       THEN ReportStore(SaveAgain(tabs, rma, b1, last_save_path))
       ELSE IF before \/ after
       THEN ReportStore(b1)
       ELSE UNCHANGED << files, stateFile, userFile, snapshot >>
    /\ lastOp' = ReportDone(BuildReport(tabs, rma,
                                        IF before THEN b1.fs ELSE files, assets),
                            IF before THEN b1.fs ELSE files)
    /\ UNCHANGED << recVars, autoVars >>

\* generate_report.  An empty identifier ends it with a warning.  With a
\* matching save file the record is saved before the document is built (the
\* perform_autosave call, which returns at once while an autosave runs) and
\* once more after the document was written; filename is the answer of the
\* save dialog, FALSE for a cancelled dialog; assets tells whether the
\* reference image of the bearing pattern is installed.
generate_report(filename, assets) ==
    IF rma = ""
    THEN /\ lastOp' = [op |-> "generate_report", ok |-> FALSE, why |-> "missing_rma"]
         /\ UNCHANGED << recVars, diskVars, autoVars >>
    ELSE ReportSteps(has_matching_save_file(last_save_path, rma)
                        /\ ~SkipAutosave(has_matching_save_file(last_save_path, rma),
                                         is_autosaving),
                     has_matching_save_file(last_save_path, rma) /\ filename,
                     BuildSave(tabs, rma, files, last_save_path),
                     assets)

\* ------------------------------------------------- sessions with a report
\* The identifier is typed first, then units are added and filled in, files
\* are damaged and reports are generated in any order.  A second unit is a
\* coil behind a motor or a coil.
MaxReportUnits == 2

ImgA == Path("d1", << "a" >>)

ImgB == Path("d1", << "b" >>)

OilEvaluation == "Oil Evaluation"

ExternalInspection == "External Inspection"

DriveEndBearing == "Drive End Bearing"

NextReport ==
    \/ tabs = << >> /\ set_rma("R1")
    \/ rma # "" /\ tabs = << >> /\ \E k \in Kinds : AddTab(k)
    \/ /\ tabs # << >>
       /\ Len(tabs) < MaxReportUnits
       /\ tabs[1].kind \in {"motor", "coil"}
       /\ add_coil_tab
    \/ \E i \in 1..Len(tabs), title \in StatusTitles, p \in {StatusOK, StatusNotOK} :
          click_pattern(i, title, p)
    \/ \E i \in 1..Len(tabs) : click_pattern(i, DriveEndBearing, Pitting)
    \/ \E i \in 1..Len(tabs), o \in ObsSet : click_observation(i, MotorHousing, o)
    \/ \E i \in 1..Len(tabs), title \in {OilEvaluation, ExternalInspection} :
          click_observation(i, title, "o1")
    \/ \E i \in 1..Len(tabs) : upload_images(i, MotorHousing, "obs", "o2", ImgA)
    \/ \E i \in 1..Len(tabs) : upload_images(i, ExternalInspection, "obs", "o1", ImgA)
    \/ \E i \in 1..Len(tabs) : upload_images(i, OilEvaluation, "images", "", ImgA)
    \/ \E i \in 1..Len(tabs) : upload_images(i, VisualInspection, "images", "", ImgB)
    \/ \E i \in 1..Len(tabs) : add_custom_pattern(i, MotorHousing)
    \/ \E i \in 1..Len(tabs), title \in {OilEvaluation, ExternalInspection} :
          /\ title \in Titles(tabs[i].kind)
          /\ tabs[i].secs[title].custom = << >>
          /\ add_custom_pattern(i, title)
    \/ \E i \in 1..Len(tabs), title \in {MotorHousing, OilEvaluation, ExternalInspection},
          k \in 1..MaxCustom : set_custom_text(i, title, k, "t1")
    \/ \E i \in 1..Len(tabs) : set_custom_observation(i, ExternalInspection, 1, "t1")
    \/ \E i \in 1..Len(tabs) : upload_custom_images(i, MotorHousing, 2, ImgB)
    \/ \E i \in 1..Len(tabs) : set_notes(i, OilEvaluation, "n1")
    \/ \E i \in 1..Len(tabs), is_ok \in BOOLEAN :
          click_status(i, "Electrical Testing", is_ok)
    \/ \E removed \in BOOLEAN : damage_file(ImgA, removed)
    \/ \E filename \in BOOLEAN, assets \in BOOLEAN : generate_report(filename, assets)

SpecReport == Init /\ [][NextReport]_vars

\* ------------------------------------------------- claims about the report
\* a report was generated and nothing was done since
Reported == lastOp.op = "generate_report" /\ lastOp.ok

\* the sections of tab i that have the status patterns
StatusSections(i) == StatusTitles \cap DOMAIN tabs[i].secs

\* the items of the issues status of a section: the selected observations
\* and, after them, the inline custom entries
IssueItems(i, title) ==
    ObservationItems(title, tabs[i].secs[title], StatusNotOK)
    \o CustomItems(title, tabs[i].secs[title])

\* the paragraphs of the grouping as the algorithm is described: run holds
\* the items without images met since the last paragraph
RECURSIVE ExpectedParagraphs(_, _)
ExpectedParagraphs(items, run) ==
    LET flushed == IF run = << >> THEN << >> ELSE << run >> IN
    IF items = << >>
    THEN flushed
    ELSE IF Head(items).images = << >>
    THEN ExpectedParagraphs(Tail(items), Append(run, Head(items).text))
    ELSE flushed \o << << Head(items).text >> >>
         \o ExpectedParagraphs(Tail(items), << >>)

\* the texts of the paragraphs of a document that hold one of the texts
EmittedParagraphs(doc, texts) ==
    LET hit == SelectSeq2(doc, LAMBDA b :
                   b.t = "p" /\ \E j \in 1..Len(b.text) : b.text[j] \in texts)
    IN  [k \in 1..Len(hit) |-> hit[k].text]

\* C16: in a generated report, for every section whose issues status
\* ("Status: NOT OK") is selected, the selected observations followed by the
\* inline custom entries are emitted exactly once and in order: each maximal
\* run of items without images is one paragraph of the items joined by
\* spaces, each item with images is a paragraph of its own, and the picture
\* of a readable first image follows that paragraph immediately.
C16_GroupingEmitsEveryItem ==
    Reported =>
        \A i \in 1..Len(tabs) : \A title \in StatusSections(i) :
            StatusNotOK \in tabs[i].secs[title].checked =>
                LET items == IssueItems(i, title) IN
                /\ EmittedParagraphs(lastOp.doc,
                                     { items[k].text : k \in 1..Len(items) })
                   = ExpectedParagraphs(items, << >>)
                /\ \A k \in 1..Len(items) :
                      ( /\ items[k].images # << >>
                        /\ Head(items[k].images) \in DOMAIN lastOp.fs
                        /\ lastOp.fs[Head(items[k].images)] # Unreadable )
                      => \E j \in 1..(Len(lastOp.doc) - 1) :
                            /\ lastOp.doc[j].t = "p"
                            /\ lastOp.doc[j].text = << items[k].text >>
                            /\ lastOp.doc[j + 1].t = "p"
                            /\ lastOp.doc[j + 1].role = "picture"
                            /\ lastOp.doc[j + 1].path = Head(items[k].images)

\* the captions of a document, in the order they were written
Captions(doc) == SelectSeq2(doc, LAMBDA b : b.t = "p" /\ b.role = "caption")

\* the paragraphs of a document with the given role
Blocks(doc, role) == { j \in 1..Len(doc) : doc[j].t = "p" /\ doc[j].role = role }

\* C17: in a generated report the captions carry the numbers 1, 2, 3, ... in
\* the order they were written, over all units and sections; every caption
\* stands behind the picture it numbers, and a path whose file is missing or
\* cannot be read has no caption and takes no number.
C17_FiguresNumberedInOrder ==
    Reported =>
        /\ \A k \in 1..Len(Captions(lastOp.doc)) : Captions(lastOp.doc)[k].n = k
        /\ lastOp.figures = Len(Captions(lastOp.doc))
        /\ \A j \in Blocks(lastOp.doc, "caption") :
              /\ j - 1 \in Blocks(lastOp.doc, "picture")
              /\ lastOp.doc[j - 1].path = lastOp.doc[j].path
        /\ \A j \in Blocks(lastOp.doc, "picture") :
              /\ j + 1 \in Blocks(lastOp.doc, "caption")
              /\ lastOp.doc[j].path.dir # "_assets" =>
                    /\ lastOp.doc[j].path \in DOMAIN lastOp.fs
                    /\ lastOp.fs[lastOp.doc[j].path] # Unreadable

\* a report of two units with figures in both and, before the last figure,
\* a path whose file is missing or cannot be read
C17_Witness ==
    /\ Reported
    /\ Len(tabs) = 2
    /\ \E a \in Blocks(lastOp.doc, "caption"), b \in Blocks(lastOp.doc, "page_break"),
          c \in Blocks(lastOp.doc, "caption"),
          x \in Blocks(lastOp.doc, "not_found") \cup Blocks(lastOp.doc, "error") :
          a < b /\ b < c /\ x < c

\* the summary tables of a document, in the order of the units
SummaryTables(doc) == SelectSeq2(doc, LAMBDA b : b.t = "table" /\ b.name # "header")

\* the component sections of tab i that have a paragraph in the summary table
SummarySections(i) ==
    { AllSections(tabs[i].kind)[k][1] : k \in
        { j \in 1..Len(AllSections(tabs[i].kind)) :
            AllSections(tabs[i].kind)[j][2] = "component" } }

\* the paragraph of the summary table of unit i for the section
SummaryCell(doc, i, title) ==
    LET label == IF title = "Drive End Bearing" THEN "Drive End" ELSE title
        lines == SummaryTables(doc)[i].lines
    IN  lines[CHOOSE k \in 1..Len(lines) : lines[k].label = label]

\* C18: in the summary table of every unit, the paragraph of a section with
\* at least one issue item (a selected observation of a pattern other than
\* "Status: OK" / "No issues detected", or the text of a custom entry) shows
\* the number of issue items and the issue texts in order, no status
\* sentence among them; the paragraph of a section with status items only
\* shows the status text and no count.
C18_CellCountsIssueItems ==
    Reported =>
        \A i \in 1..Len(tabs) : \A title \in SummarySections(i) :
            LET items == SummaryItems(title, tabs[i].secs[title])
                cell  == SummaryCell(lastOp.doc, i, title)
            IN  /\ items.section_items # << >> =>
                      /\ cell.counted
                      /\ cell.count = Len(items.section_items)
                      /\ cell.text = items.section_items
                /\ (items.section_items = << >> /\ items.status_items # << >>) =>
                      /\ ~cell.counted
                      /\ cell.text = items.status_items

\* the image paths of section title of tab i that the assembly comes by:
\* the general section images and the images of the selected observations
\* of the issues status
VisitedImages(i, title) ==
    SeqToSet(tabs[i].secs[title].images)
    \cup (IF StatusNotOK \in tabs[i].secs[title].checked
          THEN UNION { SeqToSet(IssueItems(i, title)[k].images) :
                          k \in 1..Len(IssueItems(i, title)) }
          ELSE { })

\* C19: in a generated report every image path of a component section that
\* the assembly comes by and whose file is missing has a placeholder note
\* ("Error: Image file not found - path") in the document.  A section whose
\* only selected pattern is "Status: OK" is left out: its part of the
\* document ends after the status images.
C19_MissingImageHasPlaceholder ==
    Reported =>
        \A i \in 1..Len(tabs) : \A title \in SummarySections(i) :
            get_selected_patterns(title, tabs[i].secs[title]) # << StatusOK >> =>
                \A img_path \in VisitedImages(i, title) :
                    img_path \notin DOMAIN lastOp.fs =>
                        \E j \in Blocks(lastOp.doc, "not_found") :
                            lastOp.doc[j].path = img_path

\* the part of a document that belongs to unit i: from its page break to the
\* page break of the next unit
UnitStart(doc, i) ==
    CHOOSE j \in Blocks(doc, "page_break") :
        Cardinality({ k \in Blocks(doc, "page_break") : k <= j }) = i

UnitEnd(doc, i) ==
    IF i = Cardinality(Blocks(doc, "page_break"))
    THEN Len(doc) + 1
    ELSE UnitStart(doc, i + 1)

\* the headings that open a section or the summary of a unit
SectionHeadings ==
    AllTitles \cup {"Motor Summary", "Compressor Summary", "Coil Summary",
                    "Valve Summary"}

\* the part of a document that belongs to section title of unit i: from the
\* heading of the section to the next heading of a section or of the summary
SectionPart(doc, i, title) ==
    LET start == CHOOSE j \in UnitStart(doc, i)..(UnitEnd(doc, i) - 1) :
                     doc[j].t = "h" /\ doc[j].text = title
    IN  { j \in start..(UnitEnd(doc, i) - 1) :
            \A k \in (start + 1)..j :
                ~(doc[k].t = "h" /\ doc[k].text \in SectionHeadings) }

\* the sentences that stand for an issue without detail
FallbackSentences(title) ==
    { << MotorFallback >>, << title, SpecificsMissing >>,
      << "Visual inspection", SpecificsMissing >> }

\* C20: in a generated report, for every component section and every
\* selected pattern other than "Status: OK" / "No issues detected": the part
\* of the section holds exactly one fallback sentence when the pattern has no
\* selected observation and the section has no custom entry, and none when
\* there is an observation or a custom entry.
C20_OneFallbackSentence ==
    Reported =>
        \A i \in 1..Len(tabs) : \A title \in SummarySections(i) :
            \A pattern \in tabs[i].secs[title].checked \ {StatusOK, NoIssues} :
                Cardinality(
                    { j \in SectionPart(lastOp.doc, i, title) :
                        /\ lastOp.doc[j].t = "p"
                        /\ lastOp.doc[j].role = "text"
                        /\ lastOp.doc[j].text \in FallbackSentences(title) })
                = IF /\ get_selected_observations(title, tabs[i].secs[title],
                                                  pattern) = << >>
                     /\ get_custom_patterns(title, tabs[i].secs[title]) = << >>
                  THEN 1
                  ELSE 0

\* --------------------------------------------- status as a transition system
\* the state of the two status boxes of a section
StatusOf(kind, title, sec) ==
    LET pair == StatusPair(kind, title, sec) IN
    CASE pair.ok /\ pair.not_ok  -> "Both"
      [] pair.ok /\ ~pair.not_ok -> "OK"
      [] ~pair.ok /\ pair.not_ok -> "NotOK"
      [] OTHER                   -> "Unset"

\* the state a click on a status box has to lead to: the status of the box
\* when the click checks it, Unset when the click unchecks it
ClickTarget(was_checked, is_ok) ==
    IF was_checked THEN "Unset" ELSE IF is_ok THEN "OK" ELSE "NotOK"

\* C21: from each of the states Unset, OK and NotOK of a section with status
\* boxes, a click that checks "Status: OK" leads to OK, a click that checks
\* "Status: NOT OK" leads to NotOK, and a click that unchecks the checked
\* status leads to Unset (so unchecking never checks the other box).
C21_StatusTransitions ==
    [][ \A i \in 1..Len(tabs) : \A title \in Titles(tabs[i].kind) :
          /\ \A p \in {StatusOK, StatusNotOK} :
                (title \in StatusTitles /\ click_pattern(i, title, p)) =>
                    StatusOf(tabs[i].kind, title, tabs'[i].secs[title])
                      = ClickTarget(p \in tabs[i].secs[title].checked, p = StatusOK)
          /\ \A is_ok \in BOOLEAN :
                click_status(i, title, is_ok) =>
                    StatusOf(tabs[i].kind, title, tabs'[i].secs[title])
                      = ClickTarget(IF is_ok THEN tabs[i].secs[title].ok
                                             ELSE tabs[i].secs[title].not_ok,
                                    is_ok) ]_vars

\* "Status: NOT OK" of an electrical section was checked while "Status: OK"
\* was checked, and the section is now NotOK
C21_Witness ==
    /\ lastOp.op = "click_status"
    /\ lastOp.switched
    /\ \E i \in 1..Len(tabs) : \E title \in Titles(tabs[i].kind) :
          /\ SectionType(tabs[i].kind, title) \in ElectricalTypes
          /\ StatusOf(tabs[i].kind, title, tabs[i].secs[title]) = "NotOK"

\* ------------------------------------------------ what a status switch keeps
\* One unit of any kind; its sections are filled under "Status: NOT OK"
\* (observations, issues, custom entries, images, notes) and the status
\* boxes are clicked in any order.
NextSwitch ==
    \/ add_unit
    \/ \E i \in 1..Len(tabs), title \in StatusTitles, p \in {StatusOK, StatusNotOK} :
          click_pattern(i, title, p)
    \/ \E i \in 1..Len(tabs), title \in AllTitles, is_ok \in BOOLEAN :
          click_status(i, title, is_ok)
    \/ \E i \in 1..Len(tabs), title \in StatusTitles : click_observation(i, title, "o1")
    \/ \E i \in 1..Len(tabs), title \in AllTitles : click_issue(i, title, Issues[1])
    \/ \E i \in 1..Len(tabs), title \in StatusTitles :
          /\ title \in Titles(tabs[i].kind)
          /\ tabs[i].secs[title].custom = << >>
          /\ add_custom_pattern(i, title)
    \/ \E i \in 1..Len(tabs), title \in StatusTitles : set_custom_text(i, title, 1, "t1")
    \/ \E i \in 1..Len(tabs), title \in StatusTitles, slot \in {"images", "pattern"} :
          upload_images(i, title, slot, "", ImgA)
    \/ \E i \in 1..Len(tabs), title \in AllTitles : set_notes(i, title, "n1")
    \/ \E i \in 1..Len(tabs), title \in AllTitles : set_resistance(i, title, "t1")

SpecSwitch == Init /\ [][NextSwitch]_vars

\* a section without the state of its status boxes
WithoutStatus(kind, title, sec) ==
    IF SectionType(kind, title) = "component"
    THEN [sec EXCEPT !.checked = @ \ {StatusOK, StatusNotOK}]
    ELSE [sec EXCEPT !.ok = FALSE, !.not_ok = FALSE]

\* C22: a click on a status box of a section (NOT OK to OK, OK to NOT OK, or
\* to Unset) changes nothing of the section but the two status boxes: the
\* checked observations and issues, the custom entries and their texts, every
\* image list, the resistance and the notes stay as they were, so that
\* checking "Status: NOT OK" again shows the selections made before.
C22_SwitchKeepsSelections ==
    [][ \A i \in 1..Len(tabs) : \A title \in Titles(tabs[i].kind) :
          ( \/ \E p \in {StatusOK, StatusNotOK} :
                  title \in StatusTitles /\ click_pattern(i, title, p)
            \/ \E is_ok \in BOOLEAN : click_status(i, title, is_ok) )
          => WithoutStatus(tabs[i].kind, title, tabs'[i].secs[title])
               = WithoutStatus(tabs[i].kind, title, tabs[i].secs[title]) ]_vars

\* "Status: NOT OK" of a component section was checked again while
\* "Status: OK" was checked, and the section holds an observation, a custom
\* entry with its text, an image and notes entered before the switch
C22_Witness ==
    /\ lastOp.op = "click_pattern"
    /\ lastOp.switched
    /\ \E i \in 1..Len(tabs) : \E title \in Titles(tabs[i].kind) :
          /\ title \in StatusTitles
          /\ tabs[i].secs[title].checked = {StatusNotOK}
          /\ tabs[i].secs[title].obs = {"o1"}
          /\ Len(tabs[i].secs[title].custom) = 1
          /\ tabs[i].secs[title].custom[1].text = "t1"
          /\ tabs[i].secs[title].patImages[StatusNotOK] = << ImgA >>
          /\ tabs[i].secs[title].notes = "n1"

\* ------------------------------------------- selections under an OK status
\* what was entered under "Status: NOT OK" of a section: the checked
\* observations and the texts typed into the custom entries
EnteredIssues(sec) ==
    ( sec.obs
      \cup UNION { {Strip(sec.custom[k].text)}
                   \cup { Strip(sec.custom[k].obs[n]) :
                             n \in 1..Len(sec.custom[k].obs) }
                   : k \in 1..Len(sec.custom) } )
    \ {""}

\* C23: in a generated report, for every section whose status is OK ("Status:
\* OK" checked, "Status: NOT OK" not) and that holds observations or custom
\* issues entered under NOT OK: none of them stands in a paragraph of the
\* section, and the paragraph of the section in the summary table of the
\* unit carries no issue count and none of them.
C23_OkStatusHidesIssues ==
    Reported =>
        \A i \in 1..Len(tabs) : \A title \in StatusSections(i) :
            ( /\ tabs[i].secs[title].checked = {StatusOK}
              /\ EnteredIssues(tabs[i].secs[title]) # {} )
            => /\ \A j \in SectionPart(lastOp.doc, i, title) :
                     lastOp.doc[j].t = "p" =>
                        \A n \in 1..Len(lastOp.doc[j].text) :
                           lastOp.doc[j].text[n]
                              \notin EnteredIssues(tabs[i].secs[title])
               /\ ~SummaryCell(lastOp.doc, i, title).counted
               /\ \A n \in 1..Len(SummaryCell(lastOp.doc, i, title).text) :
                     SummaryCell(lastOp.doc, i, title).text[n]
                        \notin EnteredIssues(tabs[i].secs[title])

\* ------------------------------------------------- the two ways to load
\* the lists and counters that load_progress clears before its loop:
\* motor_tabs, compressor_tabs, coil_tabs and their counters; valve_tabs and
\* valve_count are not among them
ClearedByDialogLoad(cnt) ==
    [k \in Kinds |-> IF k \in {"motor", "compressor", "coil"} THEN 0 ELSE cnt[k]]

\* load_progress: the load behind the "Load Progress" button, with the file
\* dialog answered load_path (a file that exists).  The tab widget is
\* emptied; valve_tabs keeps the tabs of the record before the load, so
\* len(valve_tabs) and valve_count stay equal to each other.
load_progress(load_path) ==
    /\ userFile[load_path] # Absent
    /\ LET json_path == IF stateFile[load_path] # Absent
                        THEN stateFile[load_path] ELSE userFile[load_path]
       IN  IF json_path = Corrupt
           THEN \* json.load raises inside the try: "Failed to load progress"
                /\ lastOp' = [op |-> "load", ok |-> FALSE, why |-> "exception",
                              dialog |-> TRUE]
                /\ UNCHANGED << recVars, diskVars, autoVars >>
           ELSE
           LET st == LoadEquipment([tabs |-> << >>,
                                    count |-> ClearedByDialogLoad(count),
                                    failed |-> FALSE],
                                   json_path.data.equipment, files,
                                   ImagesFolder(load_path))
           IN  /\ tabs' = st.tabs
               /\ count' = st.count
               /\ rma' = json_path.data.header.rma
               /\ IF st.failed
                  THEN /\ lastOp' = [op |-> "load", ok |-> FALSE,
                                     why |-> "exception", dialog |-> TRUE]
                       /\ UNCHANGED << diskVars, autoVars >>
                  ELSE /\ last_save_path' = load_path
                       /\ timerActive' = TRUE
                       /\ lastOp' = [op |-> "load", ok |-> TRUE, why |-> "",
                                     path |-> load_path, data |-> json_path.data,
                                     dialog |-> TRUE]
                       /\ UNCHANGED << diskVars, is_autosaving, autosave >>

\* Records of up to MaxLoadUnits untouched units are built, saved and loaded
\* through either entry point, in any order.  Units are removed while every
\* list of tabs holds exactly the tabs of the widget, and the dialog is used
\* while no counter is beyond MaxLoadUnits.
MaxLoadUnits == 2

NextLoad ==
    \/ Len(tabs) < MaxLoadUnits /\ add_motor_tab
    \/ Len(tabs) < MaxLoadUnits /\ add_compressor_tab
    \/ Len(tabs) < MaxLoadUnits /\ add_coil_tab
    \/ Len(tabs) < MaxLoadUnits /\ add_valve_tab
    \/ (\A k \in Kinds : count[k] = ListLen(tabs, k)) /\ remove_equipment_tab
    \/ save_progress("R1")
    \/ load_progress_from_path("R1")
    \/ (\A k \in Kinds : count[k] <= MaxLoadUnits) /\ load_progress("R1")

SpecLoad == Init /\ [][NextLoad]_vars

\* C24: after a successful load by either entry point, from any record, the
\* record holds the units of the file in file order and the ordinals of the
\* units of each kind are 1..N in tab order; and a unit added at any time,
\* also after a load, gets the ordinal N+1, N the number of units of its
\* kind that were open.
C24_LoadedOrdinalsDense ==
    /\ (lastOp.op = "load" /\ lastOp.ok) =>
          /\ [j \in 1..Len(tabs) |-> tabs[j].kind]
             = [j \in 1..Len(lastOp.data.equipment) |->
                   lastOp.data.equipment[j].type]
          /\ \A k \in Kinds :
                Ordinals(tabs, k) = [n \in 1..ListLen(tabs, k) |-> n]
    /\ lastOp.op = "add" =>
          tabs[Len(tabs)].number = ListLen(tabs, lastOp.kind)

\* ---------------------------------------- custom entries in the narrative
\* C25: in a generated report, for every section with inline custom entries
\* whose "Status: NOT OK" is selected, the text of every custom entry with
\* non-empty text stands in a paragraph of the section, whatever the number
\* of selected observations, zero included.
C25_CustomEntriesEmitted ==
    Reported =>
        \A i \in 1..Len(tabs) : \A title \in StatusSections(i) \cap InlineCustomTitles :
            StatusNotOK \in tabs[i].secs[title].checked =>
                \A k \in 1..Len(get_custom_patterns(title, tabs[i].secs[title])) :
                    \E j \in SectionPart(lastOp.doc, i, title) :
                        /\ lastOp.doc[j].t = "p"
                        /\ lastOp.doc[j].role = "text"
                        /\ \E n \in 1..Len(lastOp.doc[j].text) :
                              lastOp.doc[j].text[n]
                                = get_custom_patterns(title, tabs[i].secs[title])[k].text

\* ------------------------------- the status of Electrical Testing, reloaded
ElectricalTesting == "Electrical Testing"

\* C26: after a successful load of a saved record, the Electrical Testing
\* section of every compressor shows the status it had when the record was
\* saved, for each of Unset, OK and NOT OK: a section saved with neither box
\* checked comes back with neither checked.
C26_ElectricalStatusRoundTrip ==
    (lastOp.op = "load" /\ lastOp.ok) =>
        \A i \in 1..Len(tabs) :
            tabs[i].kind = "compressor" =>
                StatusOf("compressor", ElectricalTesting,
                         tabs[i].secs[ElectricalTesting])
                = StatusOf("compressor", ElectricalTesting,
                           snapshot[lastOp.path][i].secs[ElectricalTesting])

\* ------------------------------------ named custom patterns, saved and loaded
\* One motor; custom patterns of Drive End Bearing are added, named and given
\* an observation text; the record is saved and loaded in any order.
NextNamed ==
    \/ Len(tabs) < MaxUnits /\ add_motor_tab
    \/ \E i \in 1..Len(tabs) : add_custom_pattern(i, DriveEndBearing)
    \/ \E i \in 1..Len(tabs), k \in 1..MaxCustom, text \in {"", "t1"} :
          set_custom_text(i, DriveEndBearing, k, text)
    \/ \E i \in 1..Len(tabs), k \in 1..MaxCustom, text \in {"", "o1"} :
          set_custom_observation(i, DriveEndBearing, k, text)
    \/ save_progress("R1")
    \/ load_progress_from_path("R1")

SpecNamed == Init /\ [][NextNamed]_vars

\* the sections whose custom entries are named patterns
NamedCustomTitles(kind) ==
    { title \in Titles(kind) :
        SectionType(kind, title) = "component" /\ title \notin InlineCustomTitles }

\* C27: after a successful load of a saved record, every section with named
\* custom patterns returns the custom patterns it returned when the record
\* was saved: the same names, observation texts and images, in the same
\* order.
C27_NamedCustomsRoundTrip ==
    (lastOp.op = "load" /\ lastOp.ok) =>
        \A i \in 1..Len(tabs) : \A title \in NamedCustomTitles(tabs[i].kind) :
            get_custom_patterns(title, tabs[i].secs[title])
            = get_custom_patterns(title, snapshot[lastOp.path][i].secs[title])

\* ------------------------------------------ the ids of the custom entries
\* One unit of any kind; custom entries of its component sections are
\* added, given a text and deleted in any order.
NextCustom ==
    \/ add_unit
    \/ \E i \in 1..Len(tabs), title \in StatusTitles :
          click_pattern(i, title, StatusNotOK)
    \/ \E i \in 1..Len(tabs), title \in AllTitles : add_custom_pattern(i, title)
    \/ \E i \in 1..Len(tabs), title \in AllTitles, k \in 1..MaxCustom :
          delete_custom_pattern(i, title, k)
    \/ \E i \in 1..Len(tabs), title \in AllTitles, k \in 1..MaxCustom :
          set_custom_text(i, title, k, "t1")

SpecCustom == Init /\ [][NextCustom]_vars

\* the custom entries of a section have pairwise distinct ids
DistinctIds(sec) ==
    \A j, k \in 1..Len(sec.custom) : j # k => sec.custom[j].id # sec.custom[k].id

\* C28: in every component section, after any sequence of add and delete
\* actions, the ids of the custom entries are pairwise distinct after the
\* action, and a click on the Delete button of an entry removes that entry
\* from the list and leaves every other entry, with its text and images, in
\* place.
C28_DeleteRemovesOneEntry ==
    [][ \A i \in 1..Len(tabs') : \A title \in Titles(tabs'[i].kind) :
          /\ SectionType(tabs'[i].kind, title) = "component"
                => DistinctIds(tabs'[i].secs[title])
          /\ \A k \in 1..MaxCustom :
                delete_custom_pattern(i, title, k) =>
                    tabs'[i].secs[title].custom
                      = RemoveAt(tabs[i].secs[title].custom, k) ]_vars

\* --------------------------------------- every saved bundle can be loaded
\* One unit of any kind; a status of its component section is checked,
\* images are attached to the checked "Status: NOT OK" and to the section,
\* and the record is saved and loaded in any order.  Every write succeeds.
NextBundle ==
    \/ add_unit
    \/ \E i \in 1..Len(tabs), title \in StatusTitles, p \in {StatusOK, StatusNotOK} :
          click_pattern(i, title, p)
    \/ \E i \in 1..Len(tabs), title \in StatusTitles : click_observation(i, title, "o1")
    \/ \E i \in 1..Len(tabs), title \in StatusTitles, slot \in {"images", "pattern"} :
          upload_images(i, title, slot, "", ImgA)
    \/ save_progress("R1")
    \/ load_progress_from_path("R1")

SpecBundle == Init /\ [][NextBundle]_vars

\* C29: a load of a bundle that a successful save wrote ends with the record
\* of the file and the success message: it never ends in the except branch
\* with the tabs cleared and the units rebuilt in part.  (A load before any
\* save finds no file.)
C29_SavedBundleLoads ==
    lastOp.op = "load" => (lastOp.ok \/ lastOp.why = "not_found")

\* ------------------------------------ the path an autosave writes to
\* C30: whenever perform_autosave has written its files, the path it wrote
\* to is the remembered save path of a record whose identifier, trimmed, is
\* non-empty and is the base name of that path: nothing that the event loop
\* handles between the guard and the write (an edit of the identifier, a
\* save to another path, a load) makes an autosave write the record under a
\* name that does not match it.
C30_AutosaveWritesMatchingPath ==
    lastOp.op = "autosave" => has_matching_save_file(lastOp.path, rma)

====
